---- MODULE Spec2Model ----
(***************************************************************************)
(* Process transport and streaming protocol layer of go-claude-code:       *)
(* the transport (child process, pipes, message reader, control            *)
(* correlator, idempotent close) and the session Client over it.           *)
(*                                                                         *)
(* The child's standard output is a sequence of lines (stdout); the        *)
(* message reader goroutine (transport.readMessages) walks it with rdPos.  *)
(* A line is a record: raw is the text class of the line ("" an empty      *)
(* line, "not json" a malformed record, "json" a well-formed object) and   *)
(* type/body/rid/success are the fields the decoders look at.              *)
(***************************************************************************)
EXTENDS Naturals, Sequences, FiniteSets, TLC

\* ------------------------------------------------------------- bounds
\* Longest child output, in lines, of the transport specifications.
MaxLines == 3
\* Number of sendInterrupt calls made on one transport.
MaxReq == 2
\* Number of sendMessage calls recorded in the write log.
MaxSends == 1
\* Longest child output of the correlator and the shutdown specifications.
CtlLines == 2
CloseLines == 2
\* Number of Client API calls recorded in the call log.
MaxCalls == 3
\* Longest child output of the session and the one-shot specifications.
SessLines == 3
QueryLines == 3
\* Most operations a caller performs on the slice GetMessages returned.
MaxSnapOps == 4
\* Most frames the senders write to the child's input.
MaxFrames == 3
\* The cap of the diagnostic buffer (10 MiB in the program), the size of
\* readStderr's read buffer (4096 in the program) and the most bytes the
\* child writes to stderr, all scaled down to model bytes.
maxStderrSize == 5
ChunkMax == 3
MaxStderrBytes == 8
\* The timeout handed to collectStderr, in periods of its 100 ms ticker.
DrainTicks == 5
\* Number of parseMessage calls recorded.
MaxParses == 2
\* Capacity of an operating-system pipe buffer (64 KiB on Linux), in model
\* bytes.
PipeCap == 2

\* -------------------------------------------------- program constants
\* make(chan Message, 100)
MessagesCap == 100
\* make(chan error, 10)
ErrorsCap == 10

\* The two goroutines that call close().
Closers == {"A", "B"}
\* Contexts a caller hands to the SDK: the one given to Connect (and so to
\* exec.CommandContext) and one given to the later operations.
Contexts == {"spawn", "op"}

ReqIds == 1..MaxReq

\* The goroutines that write to the child's input.
Writers == {"w1", "w2"}

VARIABLES
    \* Client
    connected, closed, transport,
    \* caller contexts that have been cancelled
    cancelled,
    \* child process and its pipes
    child, killer, stdinOpen, stdout, stdoutClosed, rdPos,
    \* transport channels and shutdown
    messages, messagesClosed, errors, errorsClosed, done, closeOnce,
    \* control correlator
    requestID, controlResp, controlMu, written,
    \* readMessages goroutine
    rdPc, rdItem,
    \* sendInterrupt calls
    intrPc, intrRes, intrGot,
    \* close() calls
    clPc, clVia, teardowns, closeCount,
    \* sendMessage log, the consumer of the inbound queue, goroutine panic
    sends, received, panicked,
    \* Client: c.messages, the log of API calls and their results, children started
    history, calls, spawns,
    \* the goroutine of StreamMessages / ReceiveResponse and its out channel
    smPc, smOp, smHold, delivered,
    \* a WaitForResult or iterator Next call in progress
    cnPc, cnOp, cnHold,
    \* Query: its loop, result.Messages, result.Result, what it returned
    qPc, qMsgs, qResult, qRet,
    \* the goroutine running transport.wait(), the waitDone channel, exit status
    waitPc, waitDone, exitCode,
    \* memory: backing arrays, the slice c.messages, the slice a caller got
    \* from GetMessages and what the caller did with it
    heap, cmsgs, snap, snapOps,
    \* the child's stdin: chunks written, holder of t.mu, the senders
    pipe, wmu, wPc, wFrames,
    \* readStderr goroutine, t.stderrBuf, bytes read from the stderr pipe
    errPc, stderrBuf, stderrRead, errChunk,
    \* collectStderr: position, elapsed ticker periods, ticker.C and timer.C,
    \* its locals, the lengths it polled, what it returned and why
    csPc, tick, tickerReady, timerReady, lastSize, stableCount, polls, csRet, csWhy,
    \* the calls of messageParser.parseMessage made so far, with their results
    parsed,
    \* the operating system's pipe buffers: bytes in the stdin pipe the child
    \* has not read, bytes in the stderr pipe readStderr has not read, bytes
    \* the child has written to stderr, bytes of the body a sender has written
    inFill, errFill, errOut, bodyOff

vars == << connected, closed, transport, cancelled,
           child, killer, stdinOpen, stdout, stdoutClosed, rdPos,
           messages, messagesClosed, errors, errorsClosed, done, closeOnce,
           requestID, controlResp, controlMu, written,
           rdPc, rdItem, intrPc, intrRes, intrGot,
           clPc, clVia, teardowns, closeCount,
           sends, received, panicked,
           history, calls, spawns, smPc, smOp, smHold, delivered, cnPc, cnOp, cnHold,
           qPc, qMsgs, qResult, qRet, waitPc, waitDone, exitCode,
           heap, cmsgs, snap, snapOps, pipe, wmu, wPc, wFrames,
           errPc, stderrBuf, stderrRead, errChunk,
           csPc, tick, tickerReady, timerReady, lastSize, stableCount, polls, csRet, csWhy,
           parsed, inFill, errFill, errOut, bodyOff >>

\* Client state used by the consumption operations, and the state of Query.
sessVars  == << history, calls, spawns, smPc, smOp, smHold, delivered, cnPc, cnOp, cnHold >>
queryVars == << qPc, qMsgs, qResult, qRet, waitPc, waitDone, exitCode >>

\* the history's backing arrays, the write side, the diagnostic side
snapVars  == << heap, cmsgs, snap, snapOps >>
writeVars == << pipe, wmu, wPc, wFrames >>
diagVars  == << stderrBuf, stderrRead, errChunk, csPc, tick, tickerReady, timerReady,
               lastSize, stableCount, polls, csRet, csWhy >>
\* the pipe buffers; the log of the codec
pipeVars  == << inFill, errFill, errOut, bodyOff >>
extVars   == << parsed, pipeVars >>
auxVars   == << snapVars, writeVars, extVars, errPc, diagVars >>

clientVars == << connected, closed, transport, sessVars, queryVars, auxVars >>
childVars  == << child, killer, stdinOpen, stdoutClosed >>
chanVars   == << messages, messagesClosed, errors, errorsClosed >>
ctlVars    == << requestID, controlResp, controlMu, written >>
readerVars == << rdPc, rdItem, rdPos >>
intrVars   == << intrPc, intrRes, intrGot >>
closeVars  == << clPc, clVia, teardowns, closeCount, closeOnce, done >>

\* ---------------------------------------------------------------- lines
\* blocks is the content array of an assistant message: one record per
\* block, with the block's type and, for a text block, its text.
BlankLine ==
    [raw |-> "", type |-> "", body |-> "", rid |-> 0, success |-> FALSE, blocks |-> <<>>]
GarbageLine ==
    [raw |-> "not json", type |-> "", body |-> "", rid |-> 0, success |-> FALSE,
     blocks |-> <<>>]
Frame(t, b) ==
    [raw |-> "json", type |-> t, body |-> b, rid |-> 0, success |-> FALSE, blocks |-> <<>>]
\* {"type":"assistant","message":{"role":"assistant","content":[...]}}
AsstFrame(bs) ==
    [raw |-> "json", type |-> "assistant", body |-> "payload", rid |-> 0,
     success |-> FALSE, blocks |-> bs]
\* {"type":"control_response","request_id":r,"response":{"success":s}}
CtrlFrame(r, s) ==
    [raw |-> "json", type |-> "control_response", body |-> "response", rid |-> r,
     success |-> s, blocks |-> <<>>]
\* a control_response whose request_id is not a string
BadCtrlFrame ==
    [raw |-> "json", type |-> "control_response", body |-> "mismatch", rid |-> 0,
     success |-> FALSE, blocks |-> <<>>]

\* Message bodies: "" (no message field), "null", "{}", "payload" (an
\* object), "result" (an object with subtype "result"), "mismatch" (a JSON
\* value that is no object).
EmptyBodies == {"", "null", "{}"}

Nil == [kind |-> "nil", type |-> "", n |-> 0]
Msg(t, n) == [kind |-> "msg", type |-> t, n |-> n]
Err(t, n) == [kind |-> "err", type |-> t, n |-> n]

\* ---------------------------------------------------------------- codec
isControlResponse(line) ==
    line.raw = "json" /\ line.type = "control_response"

parseControlResponse(line, n) ==
    IF line.body = "mismatch"
      THEN Err("CLIJSONDecodeError", n)
      ELSE [kind |-> "resp", type |-> "", n |-> n]

parseStreamMessage(line, n) ==
    IF line.raw # "json"
      THEN Err("CLIJSONDecodeError", n)
      ELSE [kind |-> "stream", type |-> line.type, n |-> n]

parseMessage(msgType, data, n) ==
    IF data \in EmptyBodies THEN Nil
    ELSE CASE msgType = "user" ->
                IF data = "mismatch" THEN Err("MessageParseError", n) ELSE Msg("user", n)
           [] msgType = "assistant" ->
                IF data = "mismatch" THEN Err("MessageParseError", n) ELSE Msg("assistant", n)
           [] msgType = "system" ->
                IF data = "mismatch" THEN Err("MessageParseError", n)
                ELSE IF data = "result" THEN Msg("result", n)
                ELSE Msg("system", n)
           [] OTHER -> Err("MessageParseError", n)

\* A reader that does not take control responses off the stream and decodes
\* every frame it does not know as a system notice.
ReaderDispatchUnfiltered(line, n) ==
    IF line.raw = "" THEN Nil
    ELSE LET sm == parseStreamMessage(line, n) IN
         IF sm.kind = "err" THEN sm
         ELSE IF line.body \in EmptyBodies THEN Nil
         ELSE IF sm.type \in {"user", "assistant"} THEN Msg(sm.type, n)
         ELSE Msg("system", n)

\* What readMessages does with line n of the stream: skip it, route it to
\* the correlator, or push a message or an error.
ReaderDispatch(line, n) ==
    IF line.raw = "" THEN Nil
    ELSE IF isControlResponse(line) THEN parseControlResponse(line, n)
    ELSE LET sm == parseStreamMessage(line, n) IN
         IF sm.kind = "err" THEN sm
         ELSE parseMessage(sm.type, line.body, n)


\* ------------------------------------------------------- state helpers
Absent    == [kind |-> "absent", type |-> "", n |-> 0]
EmptySlot == [kind |-> "empty", type |-> "", n |-> 0]

SeqsUpTo(S, k) == UNION { [1..m -> S] : m \in 0..k }

\* The child answers a control request only after it has read it: line i can
\* be on the stream once the request it answers has been written to stdin.
Causal(i) ==
    (isControlResponse(stdout[i]) /\ stdout[i].rid \in ReqIds) => stdout[i].rid \in written

\* The child stops writing: of its output only lines 1..e were emitted.
Truncate(e) ==
    /\ e \in rdPos..Len(stdout)
    /\ \A i \in (rdPos + 1)..e : Causal(i)
    /\ stdout' = SubSeq(stdout, 1, e)

\* A panic in any goroutine ends the program.
Running == panicked = "no"

Pending == { r \in ReqIds : controlResp[r].kind # "absent" }

\* t.messages <- msg at the wrong end of the queue.
EnqueueFront(q, m) == <<m>> \o q

\* t.messages <- msg
Enqueue(q, m) == Append(q, m)

\* Responses handed out in arrival order: the oldest pending request.
RouteKeyOldest(n) ==
    IF Pending = {} THEN 0 ELSE CHOOSE r \in Pending : \A q \in Pending : r <= q

\* t.controlResp[resp.RequestID]
RouteKey(n) == stdout[n].rid

\* Every context kills the child.
KillsOnCancelAny(c) == TRUE

\* exec.CommandContext(ctx, cliPath, args...): the child is killed when the
\* context the transport was spawned with is done.
KillsOnCancel(c) == c = "spawn"

\* A goroutine in sendMessage or sendInterrupt: where it is, whether its
\* frame is a user turn or a control request, and the number of the frame.
IdleWriter == [pc |-> "idle", kind |-> "none", f |-> 0]

\* A slice is a backing array and a length; its capacity is the length of
\* the array. heap maps each array to its cells. An array no slice refers
\* to is empty and can be allocated again.
ArrIds == {"a1", "a2", "a3"}

\* make([]Message, 0)
EmptySlice == [arr |-> "none", len |-> 0]

NoCall ==
    [op |-> "none", err |-> "none", pre |-> "Unconnected", had |-> FALSE,
     afterClose |-> FALSE]

InitBase(scripts, codes) ==
    /\ connected = FALSE /\ closed = FALSE /\ transport = FALSE
    /\ cancelled = {}
    /\ child = "none" /\ killer = "none" /\ stdinOpen = FALSE
    /\ stdout \in scripts /\ stdoutClosed = FALSE /\ rdPos = 0
    /\ messages = <<>> /\ messagesClosed = FALSE
    /\ errors = <<>> /\ errorsClosed = FALSE
    /\ done = FALSE /\ closeOnce = "idle"
    /\ requestID = 0 /\ controlResp = [r \in ReqIds |-> Absent]
    /\ controlMu = "free" /\ written = {}
    /\ rdPc = "idle" /\ rdItem = Nil
    /\ intrPc = [r \in ReqIds |-> "idle"]
    /\ intrRes = [r \in ReqIds |-> "none"]
    /\ intrGot = [r \in ReqIds |-> Nil]
    /\ clPc = [c \in Closers |-> "idle"] /\ clVia = [c \in Closers |-> "none"]
    /\ teardowns = 0 /\ closeCount = [messages |-> 0, errors |-> 0]
    /\ sends = <<>> /\ received = <<>> /\ panicked = "no"
    /\ history = <<>> /\ calls = <<>> /\ spawns = 0
    /\ smPc = "idle" /\ smOp = NoCall /\ smHold = Nil /\ delivered = <<>>
    /\ cnPc = "idle" /\ cnOp = NoCall /\ cnHold = Nil
    /\ qPc = "idle" /\ qMsgs = <<>> /\ qResult = Nil /\ qRet = "none"
    /\ waitPc = "idle" /\ waitDone = "empty" /\ exitCode \in codes
    /\ heap = [a \in ArrIds |-> <<>>] /\ cmsgs = EmptySlice /\ snap = EmptySlice
    /\ snapOps = <<>>
    /\ pipe = <<>> /\ wmu = "free" /\ wPc = [w \in Writers |-> IdleWriter] /\ wFrames = 0
    /\ errPc = "idle" /\ stderrBuf = <<>> /\ stderrRead = 0 /\ errChunk = 0
    /\ csPc = "idle" /\ tick = 0 /\ tickerReady = FALSE /\ timerReady = FALSE
    /\ lastSize = 0 /\ stableCount = 0 /\ polls = <<>> /\ csRet = <<>> /\ csWhy = "none"
    /\ parsed = <<>>
    /\ inFill = 0 /\ errFill = 0 /\ errOut = 0 /\ bodyOff = 0

InitWith(scripts) == InitBase(scripts, {0})

\* --------------------------------------------------------------- Client
\* A write to the child's stdin succeeds while the pipe is open and the
\* child is there to read it.
WriteOK == stdinOpen /\ child = "running"

SendRecord ==
    [res |-> IF WriteOK THEN "ok" ELSE "err",
     afterTimeout |-> \E r \in ReqIds : intrPc[r] = "returned" /\ intrRes[r] = "timeout",
     quiet |-> closeOnce = "idle" /\ child = "running"]

\* The state of the Client as its operations see it under c.mu.
ClientState ==
    IF closed THEN "Closed" ELSE IF connected THEN "Connected" ELSE "Unconnected"

\* Some call of Client.Close has returned.
CloseReturned == \E c \in Closers : clPc[c] = "returned" /\ clVia[c] = "client"

\* The record of one API call: the operation, the error it returned ("none"
\* for success), and what the client was when it was made.
CallRec(op, err) ==
    [op |-> op, err |-> err, pre |-> ClientState, had |-> transport,
     afterClose |-> CloseReturned]

Log(rec) == IF Len(calls) < MaxCalls THEN Append(calls, rec) ELSE calls

\* Connect without the test of c.connected.
ConnectCheckClosedOnly == IF closed THEN "client is closed" ELSE "none"

\* Connect without the test of c.closed.
ConnectCheckConnectedOnly == IF connected THEN "client is already connected" ELSE "none"

\* if c.connected {...}; if c.closed {...}
ConnectCheck ==
    IF connected THEN "client is already connected"
    ELSE IF closed THEN "client is closed"
    ELSE "none"

\* Client.Connect: newTransport starts the child and the reader; with a
\* prompt, the first user turn is written.
Connect(prompt, startOK) ==
    /\ Running
    /\ ConnectCheck = "none" /\ Len(calls) < MaxCalls
    /\ startOK /\ "spawn" \notin cancelled
    /\ transport' = TRUE /\ connected' = TRUE
    /\ child' = "running" /\ stdinOpen' = TRUE
    /\ rdPc' = "scan" /\ errPc' = "read"
    /\ spawns' = spawns + 1
    /\ calls' = Log(CallRec("Connect", "none"))
    /\ sends' = IF prompt # "" /\ Len(sends) < MaxSends
                  THEN Append(sends, [res |-> "ok", afterTimeout |-> FALSE, quiet |-> TRUE])
                  ELSE sends
    /\ UNCHANGED << closed, cancelled, killer, stdout, stdoutClosed, rdPos, chanVars,
                    ctlVars, rdItem, intrVars, closeVars, received, panicked,
                    history, smPc, smOp, smHold, delivered, cnPc, cnOp, cnHold, queryVars, snapVars,
                    writeVars, extVars, diagVars >>

\* Client.Connect with a prompt whose write fails: newTransport has started
\* the child and the readers and the client holds the transport and is
\* marked connected, but the child has ended before it read its input, so
\* transport.sendMessage fails and Connect returns that error.
ConnectSendFails(prompt) ==
    /\ Running
    /\ ConnectCheck = "none" /\ Len(calls) < MaxCalls
    /\ prompt # "" /\ "spawn" \notin cancelled
    /\ transport' = TRUE /\ connected' = TRUE
    /\ child' = "exited" /\ stdinOpen' = TRUE
    /\ \E e \in rdPos..Len(stdout) : Truncate(e)
    /\ rdPc' = "scan" /\ errPc' = "read"
    /\ spawns' = spawns + 1
    /\ calls' = Log(CallRec("Connect", "CLIConnectionError"))
    /\ sends' = IF Len(sends) < MaxSends
                  THEN Append(sends, [res |-> "err", afterTimeout |-> FALSE, quiet |-> FALSE])
                  ELSE sends
    /\ UNCHANGED << closed, cancelled, killer, stdoutClosed, rdPos, chanVars,
                    ctlVars, rdItem, intrVars, closeVars, received, panicked,
                    history, smPc, smOp, smHold, delivered, cnPc, cnOp, cnHold, queryVars,
                    snapVars, writeVars, extVars, diagVars >>

\* Client.Connect returning an error before anything is started: the client
\* is connected or closed, or newTransport fails.
ConnectRefused(startOK) ==
    /\ Running
    /\ Len(calls) < MaxCalls
    /\ ConnectCheck # "none" \/ ~startOK
    /\ calls' = Log(CallRec("Connect",
                   IF ConnectCheck # "none" THEN ConnectCheck ELSE "CLIConnectionError"))
    /\ UNCHANGED << connected, closed, transport, history, spawns, smPc, smOp, smHold,
                    delivered, cnPc, cnOp, cnHold, queryVars, auxVars, cancelled, childVars, stdout,
                    chanVars, ctlVars, readerVars, intrVars, closeVars, sends, received,
                    panicked >>

\* Client.SendMessage -> transport.sendMessage. The client's state is checked
\* under c.mu, which is released before the write: the write itself happens
\* on any client that has connected, closed since or not.
SendMessage ==
    /\ Running
    /\ transport
    /\ Len(sends) < MaxSends
    /\ sends' = Append(sends, SendRecord)
    /\ UNCHANGED << clientVars, cancelled, childVars, stdout, chanVars, ctlVars,
                    readerVars, intrVars, closeVars, received, panicked >>

\* The caller cancels one of its contexts.
Cancel(c) ==
    /\ Running
    /\ c \notin cancelled
    /\ cancelled' = cancelled \cup {c}
    /\ IF KillsOnCancel(c) /\ child = "running"
         THEN /\ child' = "killed" /\ killer' = "ctx"
              /\ \E e \in rdPos..Len(stdout) : Truncate(e)
         ELSE UNCHANGED << child, killer, stdout >>
    /\ UNCHANGED << clientVars, stdinOpen, stdoutClosed, chanVars, ctlVars, readerVars,
                    intrVars, closeVars, sends, received, panicked >>

\* for msg := range client.Messages()
Consume ==
    /\ Running
    /\ transport /\ messages # <<>>
    /\ received' = Append(received, Head(messages))
    /\ messages' = Tail(messages)
    /\ UNCHANGED << clientVars, cancelled, childVars, stdout, messagesClosed, errors,
                    errorsClosed, ctlVars, readerVars, intrVars, closeVars, sends, panicked >>

\* for err := range client.Errors()
ConsumeErr ==
    /\ Running
    /\ transport /\ errors # <<>>
    /\ errors' = Tail(errors)
    /\ UNCHANGED << clientVars, cancelled, childVars, stdout, messages, messagesClosed,
                    errorsClosed, ctlVars, readerVars, intrVars, closeVars, sends, received,
                    panicked >>

\* Everything outside the Client, the queues and the consumer's log.
tptVars == << cancelled, childVars, stdout, ctlVars, readerVars, intrVars, closeVars,
              sends, panicked >>

\* if c.closed {...}; if !c.connected {...} of SendMessage and SendInterrupt
SendCheck ==
    IF closed THEN "client is closed"
    ELSE IF ~connected THEN "client is not connected"
    ELSE "none"

\* if !c.connected || c.transport == nil of the consumption operations
ConsumeCheck ==
    IF ~connected \/ ~transport THEN "client is not connected" ELSE "none"

\* Client.SendMessage: the state check, then transport.sendMessage.
ClientSendMessage ==
    /\ Running
    /\ Len(calls) < MaxCalls
    /\ IF SendCheck # "none"
         THEN /\ calls' = Log(CallRec("SendMessage", SendCheck))
              /\ UNCHANGED sends
         ELSE /\ calls' = Log(CallRec("SendMessage",
                             IF WriteOK THEN "none" ELSE "CLIConnectionError"))
              /\ sends' = IF Len(sends) < MaxSends THEN Append(sends, SendRecord) ELSE sends
    /\ UNCHANGED << connected, closed, transport, history, spawns, smPc, smOp, smHold,
                    delivered, cnPc, cnOp, cnHold, queryVars, auxVars, cancelled, childVars, stdout,
                    chanVars, ctlVars, readerVars, intrVars, closeVars, received, panicked >>

\* Client.SendInterrupt returning the error of its state check.
SendInterruptRefused ==
    /\ Running
    /\ Len(calls) < MaxCalls
    /\ SendCheck # "none"
    /\ calls' = Log(CallRec("SendInterrupt", SendCheck))
    /\ UNCHANGED << connected, closed, transport, history, spawns, smPc, smOp, smHold,
                    delivered, cnPc, cnOp, cnHold, queryVars, auxVars, chanVars, received, tptVars >>

\* ------------------------------------------------- writes to the child
\* Everything the senders leave alone.
wRest == << connected, closed, transport, sessVars, queryVars, snapVars, errPc, diagVars,
           extVars,
           cancelled, childVars, stdout, chanVars, ctlVars, readerVars, intrVars,
           closeVars, sends, received, panicked >>

\* A chunk handed to the pipe by one t.stdin.Write call.
Chunk(w, part) == [w |-> w, f |-> wPc[w].f, kind |-> wPc[w].kind, part |-> part]

\* sendMessage or sendInterrupt up to the lock: the frame is marshalled
\* (and, for an interrupt, the response slot registered).
WriteCall(w, kind) ==
    /\ Running
    /\ transport /\ wPc[w].pc = "idle" /\ wFrames < MaxFrames
    /\ wFrames' = wFrames + 1
    /\ wPc' = [wPc EXCEPT ![w] = [pc |-> "lock", kind |-> kind, f |-> wFrames + 1]]
    /\ UNCHANGED << pipe, wmu, wRest >>

\* A lock that is granted whoever holds it.
MuFreeAlways(w) == TRUE

\* t.mu can be taken
MuFree(w) == wmu = "free"

\* t.mu.Lock()
WriteLock(w) ==
    /\ Running
    /\ wPc[w].pc = "lock" /\ MuFree(w)
    /\ wmu' = w
    /\ wPc' = [wPc EXCEPT ![w].pc = "body"]
    /\ UNCHANGED << pipe, wFrames, wRest >>

\* t.stdin.Write(data); on an error the lock is released and the call returns
WriteBody(w) ==
    /\ Running
    /\ wPc[w].pc = "body"
    /\ IF WriteOK
         THEN /\ pipe' = Append(pipe, Chunk(w, "body"))
              /\ wPc' = [wPc EXCEPT ![w].pc = "newline"]
              /\ UNCHANGED wmu
         ELSE /\ wmu' = "free" /\ wPc' = [wPc EXCEPT ![w] = IdleWriter]
              /\ UNCHANGED pipe
    /\ UNCHANGED << wFrames, wRest >>

\* t.stdin.Write([]byte("\n")); t.mu.Unlock(), on success and on error
WriteNewline(w) ==
    /\ Running
    /\ wPc[w].pc = "newline"
    /\ pipe' = IF WriteOK THEN Append(pipe, Chunk(w, "newline")) ELSE pipe
    /\ wmu' = "free" /\ wPc' = [wPc EXCEPT ![w] = IdleWriter]
    /\ UNCHANGED << wFrames, wRest >>

\* ---------------------------------------------------------- diagnostics
\* Everything the diagnostic side leaves alone.
dRest == << connected, closed, transport, sessVars, queryVars, snapVars, writeVars, extVars,
           cancelled, childVars, stdout, chanVars, ctlVars, readerVars, intrVars,
           closeVars, sends, received, panicked >>

\* Bytes of the child's stderr are numbered in the order they are read.
Bytes(from, to) == [i \in 1..(to - from + 1) |-> from + i - 1]

\* A buffer that takes every chunk.
FitsAlways(len, n) == TRUE

\* if t.stderrBuf.Len()+n <= maxStderrSize
Fits(len, n) == len + n <= maxStderrSize

\* transport.readStderr, n, err := reader.Read(buf) with n > 0
ErrRead(n) ==
    /\ Running
    /\ errPc = "read" /\ child # "none"
    /\ n \in 1..ChunkMax /\ stderrRead + n <= MaxStderrBytes
    /\ stderrRead' = stderrRead + n
    /\ errChunk' = n
    /\ errPc' = "store"
    /\ UNCHANGED << stderrBuf, csPc, tick, tickerReady, timerReady, lastSize, stableCount,
                    polls, csRet, csWhy, dRest >>

\* t.mu.Lock(); the chunk is written to the buffer if it fits and dropped
\* if it does not; t.mu.Unlock()
ErrStore ==
    /\ Running
    /\ errPc = "store" /\ wmu = "free"
    /\ stderrBuf' = IF Fits(Len(stderrBuf), errChunk)
                      THEN stderrBuf \o Bytes(stderrRead - errChunk + 1, stderrRead)
                      ELSE stderrBuf
    /\ errChunk' = 0
    /\ errPc' = "read"
    /\ UNCHANGED << stderrRead, csPc, tick, tickerReady, timerReady, lastSize, stableCount,
                    polls, csRet, csWhy, dRest >>

\* reader.Read returns io.EOF once the child has ended: readStderr returns
ErrEOF ==
    /\ Running
    /\ errPc = "read" /\ child \in {"exited", "killed"}
    /\ errPc' = "stopped"
    /\ UNCHANGED << diagVars, dRest >>

\* the done check at the top of readStderr's loop: case <-t.done: return
ErrDone ==
    /\ Running
    /\ errPc = "read" /\ done
    /\ errPc' = "stopped"
    /\ UNCHANGED << diagVars, dRest >>

\* reader.Read fails on the stderr pipe that close() has closed: the error
\* is not io.EOF and is to be sent on the error queue
ErrClosed ==
    /\ Running
    /\ errPc = "read" /\ stdoutClosed
    /\ errPc' = "sendErr"
    /\ UNCHANGED << diagVars, dRest >>

\* select { case t.errors <- NewCLIConnectionError(...): ; case <-t.done:
\* return }, the send; readStderr returns after it
ErrPushErr ==
    /\ Running
    /\ errPc = "sendErr"
    /\ IF errorsClosed
         THEN panicked' = "send on closed channel" /\ UNCHANGED << errors, errPc >>
         ELSE /\ Len(errors) < ErrorsCap
              /\ errors' = Append(errors, Err("CLIConnectionError", 0))
              /\ errPc' = "stopped"
              /\ UNCHANGED panicked
    /\ UNCHANGED << diagVars, connected, closed, transport, sessVars, queryVars, snapVars,
                    writeVars, extVars, cancelled, childVars, stdout, messages,
                    messagesClosed, errorsClosed, ctlVars, readerVars, intrVars, closeVars,
                    sends, received >>

\* the <-t.done case of that select
ErrAbort ==
    /\ Running
    /\ errPc = "sendErr" /\ done
    /\ errPc' = "stopped"
    /\ UNCHANGED << diagVars, dRest >>

\* transport.collectStderr(timeout): the timer and the ticker are started
CsStart ==
    /\ Running
    /\ csPc = "idle" /\ errPc # "idle"
    /\ csPc' = "select"
    /\ tick' = 0 /\ tickerReady' = FALSE /\ timerReady' = FALSE
    /\ lastSize' = 0 /\ stableCount' = 0
    /\ UNCHANGED << errPc, stderrBuf, stderrRead, errChunk, polls, csRet, csWhy, dRest >>

\* One ticker period passes while collectStderr waits in its select: the
\* ticker fires, and so does the timer when the timeout is reached. The
\* goroutine handles what has fired before more time passes.
Tock ==
    /\ Running
    /\ csPc = "select" /\ ~tickerReady /\ ~timerReady
    /\ tick' = tick + 1
    /\ tickerReady' = TRUE
    /\ timerReady' = (tick + 1 = DrainTicks)
    /\ UNCHANGED << errPc, stderrBuf, stderrRead, errChunk, csPc, lastSize, stableCount,
                    polls, csRet, csWhy, dRest >>

\* Output counts as quiesced one poll earlier.
QuiescedAtTwo(count) == count >= 2

\* if stableCount >= 3
Quiesced(count) == count >= 3

\* case <-ticker.C: the length is read under t.mu and compared with lastSize
CsPoll ==
    /\ Running
    /\ csPc = "select" /\ tickerReady /\ wmu = "free"
    /\ tickerReady' = FALSE
    /\ polls' = Append(polls, Len(stderrBuf))
    /\ IF Len(stderrBuf) = lastSize
         THEN /\ stableCount' = stableCount + 1
              /\ csPc' = IF Quiesced(stableCount + 1) THEN "result" ELSE "select"
              /\ UNCHANGED lastSize
         ELSE /\ stableCount' = 0 /\ lastSize' = Len(stderrBuf)
              /\ UNCHANGED csPc
    /\ UNCHANGED << errPc, stderrBuf, stderrRead, errChunk, tick, timerReady, csRet, csWhy,
                    dRest >>

\* the quiesced case: result := t.stderrBuf.String() under t.mu; return
CsResult ==
    /\ Running
    /\ csPc = "result" /\ wmu = "free"
    /\ csRet' = stderrBuf /\ csWhy' = "stable"
    /\ csPc' = "returned"
    /\ UNCHANGED << errPc, stderrBuf, stderrRead, errChunk, tick, tickerReady, timerReady,
                    lastSize, stableCount, polls, dRest >>

\* case <-timer.C: result := t.stderrBuf.String() under t.mu; return
CsTimeout ==
    /\ Running
    /\ csPc = "select" /\ timerReady /\ wmu = "free"
    /\ csRet' = stderrBuf /\ csWhy' = "timeout"
    /\ csPc' = "returned"
    /\ UNCHANGED << errPc, stderrBuf, stderrRead, errChunk, tick, tickerReady, timerReady,
                    lastSize, stableCount, polls, dRest >>

\* ---------------------------------------------------------------- pipes
\* A user turn larger than the stdin pipe, and a child that writes more to
\* stderr than the stderr pipe and one read of readStderr take together
\* before it reads its input.
MsgBytes == PipeCap + 1
ErrBytes == PipeCap + ChunkMax + 1

\* Everything the pipes leave alone.
kRest == << connected, closed, transport, sessVars, queryVars, snapVars, cancelled,
           childVars, stdout, chanVars, ctlVars, readerVars, intrVars, closeVars, sends,
           received, panicked, parsed >>

\* t.stdin.Write(data) with t.mu held: the bytes that fit go into the pipe,
\* and the call returns only when the whole body is written.
WritePart(w) ==
    /\ Running
    /\ wPc[w].pc = "body" /\ WriteOK
    /\ inFill < PipeCap
    /\ LET room == PipeCap - inFill
           left == MsgBytes - bodyOff
           n    == IF left <= room THEN left ELSE room
       IN  /\ inFill' = inFill + n
           /\ IF n = left
                THEN /\ bodyOff' = 0
                     /\ pipe' = Append(pipe, Chunk(w, "body"))
                     /\ wPc' = [wPc EXCEPT ![w].pc = "newline"]
                ELSE /\ bodyOff' = bodyOff + n
                     /\ UNCHANGED << pipe, wPc >>
    /\ UNCHANGED << wmu, wFrames, errPc, diagVars, errFill, errOut, kRest >>

\* The child writes a byte to its stderr, if the pipe has room.
ChildWriteErr ==
    /\ Running
    /\ child = "running" /\ errOut < ErrBytes /\ errFill < PipeCap
    /\ errOut' = errOut + 1 /\ errFill' = errFill + 1
    /\ UNCHANGED << writeVars, errPc, diagVars, inFill, bodyOff, kRest >>

\* The child, done with stderr, reads what is in its stdin pipe.
ChildReadIn ==
    /\ Running
    /\ child = "running" /\ errOut = ErrBytes /\ inFill > 0
    /\ inFill' = 0
    /\ UNCHANGED << writeVars, errPc, diagVars, errFill, errOut, bodyOff, kRest >>

\* transport.readStderr, n, err := reader.Read(buf): n bytes leave the pipe
ErrReadPipe(n) ==
    /\ Running
    /\ errPc = "read"
    /\ n \in 1..ChunkMax /\ n <= errFill
    /\ errFill' = errFill - n
    /\ stderrRead' = stderrRead + n
    /\ errChunk' = n
    /\ errPc' = "store"
    /\ UNCHANGED << stderrBuf, csPc, tick, tickerReady, timerReady, lastSize, stableCount,
                    polls, csRet, csWhy, writeVars, inFill, errOut, bodyOff, kRest >>

\* ------------------------------------------------------ slices in memory
Cap(h, sl) == IF sl.arr = "none" THEN 0 ELSE Len(h[sl.arr])

\* The elements of slice sl.
View(h, sl) == IF sl.len = 0 THEN <<>> ELSE SubSeq(h[sl.arr], 1, sl.len)

FreeArr(used) == CHOOSE a \in ArrIds : a \notin used

\* Arrays that neither of the two slices refers to are released.
Collect(h, s1, s2) == [a \in ArrIds |-> IF a \in {s1.arr, s2.arr} THEN h[a] ELSE <<>>]

\* append(sl, m): in place when the capacity allows, otherwise into a new
\* array of twice the capacity. other is the other slice alive.
GoAppend(h, sl, m, other) ==
    IF sl.len < Cap(h, sl)
      THEN [heap  |-> [h EXCEPT ![sl.arr][sl.len + 1] = m],
            slice |-> [arr |-> sl.arr, len |-> sl.len + 1]]
      ELSE LET a  == FreeArr({sl.arr, other.arr})
               nc == IF Cap(h, sl) = 0 THEN 1 ELSE 2 * Cap(h, sl)
               ns == [arr |-> a, len |-> sl.len + 1]
           IN  [heap  |-> Collect([h EXCEPT ![a] = [i \in 1..nc |->
                                     IF i <= sl.len THEN h[sl.arr][i]
                                     ELSE IF i = sl.len + 1 THEN m ELSE Nil]],
                                  ns, other),
                slice |-> ns]

\* c.messages = append(c.messages, msg) on the backing arrays
AppendMessage(m) ==
    LET r == GoAppend(heap, cmsgs, m, snap) IN
      /\ heap' = r.heap /\ cmsgs' = r.slice
      /\ UNCHANGED << snap, snapOps >>

\* GetMessages handing out c.messages itself.
CopyAlias(sl, a) == [heap |-> heap, slice |-> sl]

\* result := make([]Message, len(c.messages)); copy(result, c.messages)
CopyOf(sl, a) ==
    [heap  |-> [heap EXCEPT ![a] = View(heap, sl)],
     slice |-> [arr |-> a, len |-> sl.len]]

\* Client.GetMessages: the caller's variable now holds the returned slice.
GetMessages ==
    /\ Running
    /\ Len(snapOps) < MaxSnapOps
    /\ LET r == CopyOf(cmsgs, FreeArr({cmsgs.arr})) IN
         /\ snap' = r.slice
         /\ heap' = Collect(r.heap, cmsgs, r.slice)
    /\ snapOps' = Append(snapOps, "get")
    /\ UNCHANGED << connected, closed, transport, sessVars, queryVars, cmsgs, writeVars, extVars,
                    errPc, diagVars, chanVars, received, tptVars >>

\* What a caller writes into the slice it got.
Extra == Msg("user", 0)

\* messages = append(messages, UserMessage{...}) by the caller
SnapAppend ==
    /\ Running
    /\ snapOps # <<>> /\ Len(snapOps) < MaxSnapOps
    /\ LET r == GoAppend(heap, snap, Extra, cmsgs) IN
         /\ heap' = r.heap /\ snap' = r.slice
    /\ snapOps' = Append(snapOps, "append")
    /\ UNCHANGED << connected, closed, transport, sessVars, queryVars, cmsgs, writeVars, extVars,
                    errPc, diagVars, chanVars, received, tptVars >>

\* messages[i] = UserMessage{...} by the caller
SnapOverwrite(i) ==
    /\ Running
    /\ snapOps # <<>> /\ Len(snapOps) < MaxSnapOps
    /\ i \in 1..snap.len
    /\ heap' = [heap EXCEPT ![snap.arr][i] = Extra]
    /\ snapOps' = Append(snapOps, "overwrite")
    /\ UNCHANGED << connected, closed, transport, sessVars, queryVars, cmsgs, snap,
                    writeVars, extVars, errPc, diagVars, chanVars, received, tptVars >>

\* c.messages = append(c.messages, msg) writing over the history.
RecordLatest(h, m) == << m >>

\* c.messages = append(c.messages, msg)
Record(h, m) == Append(h, m)

\* Client.StreamMessages and Client.ReceiveResponse: an unconnected client
\* gets a channel that is already closed; otherwise the goroutine starts.
StreamStart(op) ==
    /\ Running
    /\ smPc = "idle" /\ Len(calls) < MaxCalls
    /\ smOp' = CallRec(op, "none")
    /\ IF ConsumeCheck # "none"
         THEN /\ smPc' = "closed"
              /\ calls' = Log(CallRec(op, "closed channel"))
         ELSE /\ smPc' = "recv"
              /\ calls' = Log(CallRec(op, "none"))
    /\ UNCHANGED << connected, closed, transport, history, spawns, smHold, delivered,
                    cnPc, cnOp, cnHold, queryVars, auxVars, chanVars, received, tptVars >>

\* case msg, ok := <-msgChan with ok true
SmRecv ==
    /\ Running
    /\ smPc = "recv" /\ messages # <<>>
    /\ smHold' = Head(messages) /\ messages' = Tail(messages)
    /\ received' = Append(received, Head(messages))
    /\ smPc' = "append"
    /\ UNCHANGED << connected, closed, transport, history, calls, spawns, smOp, delivered,
                    cnPc, cnOp, cnHold, queryVars, auxVars, messagesClosed, errors, errorsClosed,
                    tptVars >>

\* c.mu.Lock(); c.messages = append(c.messages, msg); c.mu.Unlock()
SmAppend ==
    /\ Running
    /\ smPc = "append"
    /\ history' = Record(history, smHold)
    /\ AppendMessage(smHold)
    /\ smPc' = "out"
    /\ UNCHANGED << connected, closed, transport, calls, spawns, smOp, smHold, delivered,
                    cnPc, cnOp, cnHold, queryVars, writeVars, extVars, errPc, diagVars, chanVars,
                    received, tptVars >>

\* case out <- msg; ReceiveResponse returns after a ResultMessage
SmOut ==
    /\ Running
    /\ smPc = "out"
    /\ delivered' = Append(delivered, smHold)
    /\ smHold' = Nil
    /\ smPc' = IF smOp.op = "ReceiveResponse" /\ delivered'[Len(delivered')].type = "result"
                 THEN "closed" ELSE "recv"
    /\ UNCHANGED << connected, closed, transport, history, calls, spawns, smOp,
                    cnPc, cnOp, cnHold, queryVars, auxVars, chanVars, received, tptVars >>

\* case <-ctx.Done(): return, in either select; defer close(out)
SmCancel ==
    /\ Running
    /\ smPc \in {"recv", "out"} /\ "op" \in cancelled
    /\ smPc' = "closed" /\ smHold' = Nil
    /\ UNCHANGED << connected, closed, transport, history, calls, spawns, smOp, delivered,
                    cnPc, cnOp, cnHold, queryVars, auxVars, chanVars, received, tptVars >>

\* case msg, ok := <-msgChan with ok false: the inbound queue is closed
SmEnd ==
    /\ Running
    /\ smPc = "recv" /\ messages = <<>> /\ messagesClosed
    /\ smPc' = "closed"
    /\ UNCHANGED << connected, closed, transport, history, calls, spawns, smOp, smHold,
                    delivered, cnPc, cnOp, cnHold, queryVars, auxVars, chanVars, received, tptVars >>

\* ReceiveResponse, case <-errChan: an error, or the closed error queue,
\* ends the goroutine.
SmErr ==
    /\ Running
    /\ smPc = "recv" /\ smOp.op = "ReceiveResponse"
    /\ errors # <<>> \/ errorsClosed
    /\ errors' = IF errors # <<>> THEN Tail(errors) ELSE errors
    /\ smPc' = "closed"
    /\ UNCHANGED << connected, closed, transport, history, calls, spawns, smOp, smHold,
                    delivered, cnPc, cnOp, cnHold, queryVars, auxVars, messages, messagesClosed,
                    errorsClosed, received, tptVars >>

\* Client.WaitForResult up to its loop: the state check.
WaitStart ==
    /\ Running
    /\ cnPc = "idle" /\ Len(calls) < MaxCalls
    /\ IF ConsumeCheck # "none"
         THEN /\ calls' = Log(CallRec("WaitForResult", ConsumeCheck))
              /\ UNCHANGED << cnPc, cnOp >>
         ELSE /\ cnPc' = "wait" /\ cnOp' = CallRec("WaitForResult", "pending")
              /\ UNCHANGED calls
    /\ UNCHANGED << connected, closed, transport, history, spawns, smPc, smOp, smHold,
                    delivered, cnHold, queryVars, auxVars, chanVars, received, panicked, cancelled,
                    childVars, stdout, ctlVars, readerVars, intrVars, closeVars, sends >>

\* MessageIterator.Next: no state check; the select evaluates
\* it.client.transport.errors, a nil pointer dereference without a transport.
NextStart ==
    /\ Running
    /\ cnPc = "idle" /\ Len(calls) < MaxCalls
    /\ IF ~transport
         THEN /\ panicked' = "nil pointer dereference"
              /\ calls' = Log(CallRec("Next", "panic"))
              /\ UNCHANGED << cnPc, cnOp >>
         ELSE /\ cnPc' = "wait" /\ cnOp' = CallRec("Next", "pending")
              /\ UNCHANGED << calls, panicked >>
    /\ UNCHANGED << connected, closed, transport, history, spawns, smPc, smOp, smHold,
                    delivered, cnHold, queryVars, auxVars, chanVars, received, cancelled,
                    childVars, stdout, ctlVars, readerVars, intrVars, closeVars, sends >>

\* The call in progress returns err.
CnReturn(err) ==
    /\ calls' = Append(calls, [cnOp EXCEPT !.err = err])
    /\ cnPc' = "idle" /\ cnOp' = NoCall /\ cnHold' = Nil

\* case msg, ok := <-msgChan with ok true
CnRecv ==
    /\ Running
    /\ cnPc = "wait" /\ messages # <<>>
    /\ cnHold' = Head(messages) /\ messages' = Tail(messages)
    /\ received' = Append(received, Head(messages))
    /\ cnPc' = "append"
    /\ UNCHANGED << connected, closed, transport, history, calls, spawns, smPc, smOp,
                    smHold, delivered, cnOp, queryVars, auxVars, messagesClosed, errors,
                    errorsClosed, tptVars >>

\* the append to c.messages; Next returns the message, WaitForResult
\* returns on a ResultMessage and otherwise goes round its loop
CnAppend ==
    /\ Running
    /\ cnPc = "append"
    /\ history' = Record(history, cnHold)
    /\ AppendMessage(cnHold)
    /\ IF cnOp.op = "Next" \/ cnHold.type = "result"
         THEN CnReturn("none")
         ELSE cnPc' = "wait" /\ cnHold' = Nil /\ UNCHANGED << calls, cnOp >>
    /\ UNCHANGED << connected, closed, transport, spawns, smPc, smOp, smHold, delivered,
                    queryVars, writeVars, extVars, errPc, diagVars, chanVars, received, tptVars >>

\* case err := <-errChan: return nil, err. On the closed error queue the
\* receive yields nil: the call returns no message and no error.
CnErr ==
    /\ Running
    /\ cnPc = "wait"
    /\ errors # <<>> \/ errorsClosed
    /\ IF errors # <<>>
         THEN errors' = Tail(errors) /\ CnReturn(Head(errors).type)
         ELSE UNCHANGED errors /\ CnReturn("nil")
    /\ UNCHANGED << connected, closed, transport, history, spawns, smPc, smOp, smHold,
                    delivered, queryVars, auxVars, messages, messagesClosed, errorsClosed, received,
                    tptVars >>

\* case msg, ok := <-msgChan with ok false
CnClosed ==
    /\ Running
    /\ cnPc = "wait" /\ messages = <<>> /\ messagesClosed
    /\ CnReturn("message channel closed")
    /\ UNCHANGED << connected, closed, transport, history, spawns, smPc, smOp, smHold,
                    delivered, queryVars, auxVars, chanVars, received, tptVars >>

\* case <-ctx.Done(): return nil, ctx.Err()
CnCancel ==
    /\ Running
    /\ cnPc = "wait" /\ "op" \in cancelled
    /\ CnReturn("context canceled")
    /\ UNCHANGED << connected, closed, transport, history, spawns, smPc, smOp, smHold,
                    delivered, queryVars, auxVars, chanVars, received, tptVars >>

\* ---------------------------------------------------------------- child
ChildExit ==
    /\ Running
    /\ child = "running"
    /\ child' = "exited"
    /\ \E e \in rdPos..Len(stdout) : Truncate(e)
    /\ UNCHANGED << clientVars, cancelled, killer, stdinOpen, stdoutClosed, chanVars,
                    ctlVars, readerVars, intrVars, closeVars, sends, received, panicked >>

\* ------------------------------------------- transport.readMessages
\* scanner.Scan() returns line rdPos+1; the reader checks done, classifies
\* the line, and either goes on, routes a control response under controlMu,
\* or is left with a message or an error to push.
ReaderScan ==
    /\ Running
    /\ rdPc = "scan" /\ ~stdoutClosed
    /\ rdPos < Len(stdout) /\ Causal(rdPos + 1)
    /\ LET n == rdPos + 1
           d == ReaderDispatch(stdout[n], n)
           k == RouteKey(n)
       IN  /\ rdPos' = n
           /\ IF done
                THEN rdPc' = "stopped" /\ UNCHANGED << rdItem, controlResp, controlMu >>
              ELSE IF d.kind = "nil"
                THEN UNCHANGED << rdPc, rdItem, controlResp, controlMu >>
              ELSE IF d.kind = "err"
                THEN rdPc' = "sendErr" /\ rdItem' = d /\ UNCHANGED << controlResp, controlMu >>
              ELSE IF d.kind = "msg"
                THEN rdPc' = "sendMsg" /\ rdItem' = d /\ UNCHANGED << controlResp, controlMu >>
              ELSE \* a control response: lock controlMu, look the request up
                /\ controlMu = "free"
                /\ IF k \notin Pending
                     THEN UNCHANGED << rdPc, rdItem, controlResp, controlMu >>
                   ELSE IF controlResp[k].kind = "empty"
                     THEN /\ controlResp' = [controlResp EXCEPT ![k] = d]
                          /\ UNCHANGED << rdPc, rdItem, controlMu >>
                   ELSE \* ch <- resp blocks on the full slot, controlMu held
                          /\ rdPc' = "route" /\ rdItem' = d /\ controlMu' = "reader"
                          /\ UNCHANGED controlResp
    /\ UNCHANGED << clientVars, cancelled, childVars, stdout, chanVars, requestID, written,
                    intrVars, closeVars, sends, received, panicked >>

\* The blocked ch <- resp goes through once the slot has been emptied.
ReaderRoute ==
    /\ Running
    /\ rdPc = "route"
    /\ LET k == RouteKey(rdItem.n) IN
         /\ controlResp[k].kind = "empty"
         /\ controlResp' = [controlResp EXCEPT ![k] = rdItem]
    /\ controlMu' = "free" /\ rdPc' = "scan" /\ rdItem' = Nil
    /\ UNCHANGED << clientVars, cancelled, childVars, stdout, chanVars, requestID, written,
                    rdPos, intrVars, closeVars, sends, received, panicked >>

\* select { case t.messages <- msg: ; case <-t.done: return }, the send
ReaderPushMsg ==
    /\ Running
    /\ rdPc = "sendMsg"
    /\ IF messagesClosed
         THEN panicked' = "send on closed channel" /\ UNCHANGED << messages, rdPc, rdItem >>
         ELSE /\ Len(messages) < MessagesCap
              /\ messages' = Enqueue(messages, rdItem)
              /\ rdPc' = "scan" /\ rdItem' = Nil
              /\ UNCHANGED panicked
    /\ UNCHANGED << clientVars, cancelled, childVars, stdout, messagesClosed, errors,
                    errorsClosed, ctlVars, rdPos, intrVars, closeVars, sends, received >>

\* The reader returns after any error.
AfterErrorReturn(pc) == "stopped"

\* After a decode error is pushed the reader continues with the next line;
\* after the error of scanner.Err() it returns.
AfterError(pc) == IF pc = "exitErr" THEN "stopped" ELSE "scan"

\* select { case t.errors <- err: ; case <-t.done: return }, the send
ReaderPushErr ==
    /\ Running
    /\ rdPc \in {"sendErr", "exitErr"}
    /\ IF errorsClosed
         THEN panicked' = "send on closed channel" /\ UNCHANGED << errors, rdPc, rdItem >>
         ELSE /\ Len(errors) < ErrorsCap
              /\ errors' = Append(errors, rdItem)
              /\ rdPc' = AfterError(rdPc)
              /\ rdItem' = Nil
              /\ UNCHANGED panicked
    /\ UNCHANGED << clientVars, cancelled, childVars, stdout, messages, messagesClosed,
                    errorsClosed, ctlVars, rdPos, intrVars, closeVars, sends, received >>

\* the <-t.done case of those selects
ReaderAbort ==
    /\ Running
    /\ rdPc \in {"sendMsg", "sendErr", "exitErr"} /\ done
    /\ rdPc' = "stopped" /\ rdItem' = Nil
    /\ UNCHANGED << clientVars, cancelled, childVars, stdout, chanVars, ctlVars, rdPos,
                    intrVars, closeVars, sends, received, panicked >>

\* scanner.Scan() returns false at end of file: the reader returns.
ReaderEOF ==
    /\ Running
    /\ rdPc = "scan" /\ ~stdoutClosed
    /\ child \in {"exited", "killed"} /\ rdPos = Len(stdout)
    /\ rdPc' = "stopped"
    /\ UNCHANGED << clientVars, cancelled, childVars, stdout, chanVars, ctlVars, rdItem,
                    rdPos, intrVars, closeVars, sends, received, panicked >>

\* scanner.Scan() returns false on the closed pipe: scanner.Err() is reported.
ReaderReadErr ==
    /\ Running
    /\ rdPc = "scan" /\ stdoutClosed
    /\ rdPc' = "exitErr" /\ rdItem' = Err("CLIConnectionError", 0)
    /\ UNCHANGED << clientVars, cancelled, childVars, stdout, chanVars, ctlVars, rdPos,
                    intrVars, closeVars, sends, received, panicked >>

\* ------------------------------------------- transport.sendInterrupt
\* Client.SendInterrupt checks the client state and releases c.mu (so the
\* call proceeds on any client that has connected); sendInterrupt takes the
\* next request id, registers its response slot under controlMu and writes
\* the request and its newline under t.mu. The child sees the request only
\* once it is written, so no response can arrive between the two steps.
IntrStart(r) ==
    /\ Running
    /\ transport
    /\ intrPc[r] = "idle" /\ r = requestID + 1
    /\ controlMu = "free"
    /\ requestID' = r
    /\ controlResp' = [controlResp EXCEPT ![r] = EmptySlot]
    /\ IF WriteOK
         THEN /\ written' = written \cup {r}
              /\ intrPc' = [intrPc EXCEPT ![r] = "waiting"]
              /\ UNCHANGED intrRes
         ELSE /\ intrRes' = [intrRes EXCEPT ![r] = "writeerr"]
              /\ intrPc' = [intrPc EXCEPT ![r] = "cleanup"]
              /\ UNCHANGED written
    /\ UNCHANGED << clientVars, cancelled, childVars, stdout, chanVars, controlMu,
                    readerVars, intrGot, closeVars, sends, received, panicked >>

\* case resp := <-respChan
IntrRecv(r) ==
    /\ Running
    /\ intrPc[r] = "waiting" /\ controlResp[r].kind = "resp"
    /\ intrGot' = [intrGot EXCEPT ![r] = controlResp[r]]
    /\ intrRes' = [intrRes EXCEPT ![r] =
                     IF stdout[controlResp[r].n].success THEN "ok" ELSE "failed"]
    /\ controlResp' = [controlResp EXCEPT ![r] = EmptySlot]
    /\ intrPc' = [intrPc EXCEPT ![r] = "cleanup"]
    /\ UNCHANGED << clientVars, cancelled, childVars, stdout, chanVars, requestID,
                    controlMu, written, readerVars, closeVars, sends, received, panicked >>

\* A timed-out request closes the child's input.
IntrTimeoutClosesInput(r) ==
    /\ Running
    /\ intrPc[r] = "waiting"
    /\ intrRes' = [intrRes EXCEPT ![r] = "timeout"]
    /\ intrPc' = [intrPc EXCEPT ![r] = "cleanup"]
    /\ stdinOpen' = FALSE
    /\ UNCHANGED << clientVars, cancelled, child, killer, stdoutClosed, stdout, chanVars,
                    ctlVars, readerVars, intrGot, closeVars, sends, received, panicked >>

\* case <-time.After(5 * time.Second)
IntrTimeout(r) ==
    /\ Running
    /\ intrPc[r] = "waiting"
    /\ intrRes' = [intrRes EXCEPT ![r] = "timeout"]
    /\ intrPc' = [intrPc EXCEPT ![r] = "cleanup"]
    /\ UNCHANGED << clientVars, cancelled, childVars, stdout, chanVars, ctlVars,
                    readerVars, intrGot, closeVars, sends, received, panicked >>

\* case <-ctx.Done()
IntrCancel(r) ==
    /\ Running
    /\ intrPc[r] = "waiting" /\ "op" \in cancelled
    /\ intrRes' = [intrRes EXCEPT ![r] = "cancelled"]
    /\ intrPc' = [intrPc EXCEPT ![r] = "cleanup"]
    /\ UNCHANGED << clientVars, cancelled, childVars, stdout, chanVars, ctlVars,
                    readerVars, intrGot, closeVars, sends, received, panicked >>

\* The registration is removed only when the request succeeded.
CleanupOnSuccess(res) == res = "ok"

\* defer func() { delete(t.controlResp, requestID) }(): on every return path
CleanupDeletes(res) == TRUE

\* the deferred delete(t.controlResp, requestID) under controlMu, then return
IntrCleanup(r) ==
    /\ Running
    /\ intrPc[r] = "cleanup" /\ controlMu = "free"
    /\ controlResp' = IF CleanupDeletes(intrRes[r])
                        THEN [controlResp EXCEPT ![r] = Absent]
                        ELSE controlResp
    /\ intrPc' = [intrPc EXCEPT ![r] = "returned"]
    /\ UNCHANGED << clientVars, cancelled, childVars, stdout, chanVars, requestID,
                    controlMu, written, readerVars, intrRes, intrGot, closeVars, sends,
                    received, panicked >>

\* ------------------------------------------------------------- close
\* Client.Close: under c.mu, a closed client returns nil at once; otherwise
\* the client is marked closed and the transport, if any, is closed.
ClientClose(c) ==
    /\ Running
    /\ clPc[c] = "idle"
    /\ clVia' = [clVia EXCEPT ![c] = "client"]
    /\ calls' = Log(CallRec("Close", "none"))
    /\ UNCHANGED << history, spawns, smPc, smOp, smHold, delivered, cnPc, cnOp, cnHold,
                    queryVars, auxVars >>
    /\ IF closed
         THEN /\ clPc' = [clPc EXCEPT ![c] = "returned"]
              /\ UNCHANGED << connected, closed >>
         ELSE /\ closed' = TRUE /\ connected' = FALSE
              /\ clPc' = [clPc EXCEPT ![c] = IF transport THEN "enter" ELSE "returned"]
    /\ UNCHANGED << transport, cancelled, childVars, stdout, chanVars, ctlVars, readerVars,
                    intrVars, teardowns, closeCount, closeOnce, done, sends, received,
                    panicked >>

\* transport.close() called on the transport itself
TransportClose(c) ==
    /\ Running
    /\ clPc[c] = "idle" /\ transport
    /\ clVia' = [clVia EXCEPT ![c] = "transport"]
    /\ clPc' = [clPc EXCEPT ![c] = "enter"]
    /\ UNCHANGED << clientVars, cancelled, childVars, stdout, chanVars, ctlVars, readerVars,
                    intrVars, teardowns, closeCount, closeOnce, done, sends, received,
                    panicked >>

\* The teardown body entered by a caller, with close(t.done) as its first
\* step; closing a closed channel panics.
EnterBody(c) ==
    /\ teardowns' = teardowns + 1
    /\ closeOnce' = "running"
    /\ IF done
         THEN panicked' = "close of closed channel" /\ UNCHANGED << done, clPc >>
         ELSE /\ done' = TRUE
              /\ clPc' = [clPc EXCEPT ![c] = "kill"]
              /\ UNCHANGED panicked

\* close() without the sync.Once: every caller runs the teardown.
OnceDoUnguarded(c) ==
    /\ Running
    /\ clPc[c] = "enter"
    /\ EnterBody(c)

\* t.closeOnce.Do(func() {...}): the first caller runs the teardown, a caller
\* that arrives while it runs waits for it, a later caller returns at once.
OnceDo(c) ==
    /\ Running
    /\ clPc[c] = "enter"
    /\ closeOnce # "running"
    /\ IF closeOnce = "idle"
         THEN EnterBody(c)
         ELSE /\ clPc' = [clPc EXCEPT ![c] = "returned"]
              /\ UNCHANGED << teardowns, closeOnce, done, panicked >>

TCloseEnter(c) ==
    /\ OnceDo(c)
    /\ UNCHANGED << clientVars, cancelled, childVars, stdout, chanVars, ctlVars, readerVars,
                    intrVars, clVia, closeCount, sends, received >>

\* t.stdin.Close(); t.cmd.Process.Kill(); t.stdout.Close(); t.stderr.Close();
\* t.cmd.Wait()
TCloseKill(c) ==
    /\ Running
    /\ clPc[c] = "kill"
    /\ stdinOpen' = FALSE /\ stdoutClosed' = TRUE
    /\ IF child = "running"
         THEN /\ child' = "killed" /\ killer' = "close"
              /\ \E e \in rdPos..Len(stdout) : Truncate(e)
         ELSE UNCHANGED << child, killer, stdout >>
    /\ clPc' = [clPc EXCEPT ![c] = "chanM"]
    /\ UNCHANGED << clientVars, cancelled, chanVars, ctlVars, readerVars, intrVars, clVia,
                    teardowns, closeCount, closeOnce, done, sends, received, panicked >>

\* time.Sleep(10 * time.Millisecond); close(t.messages)
TCloseMessages(c) ==
    /\ Running
    /\ clPc[c] = "chanM"
    /\ IF messagesClosed
         THEN panicked' = "close of closed channel" /\ UNCHANGED << messagesClosed, closeCount, clPc >>
         ELSE /\ messagesClosed' = TRUE
              /\ closeCount' = [closeCount EXCEPT !.messages = @ + 1]
              /\ clPc' = [clPc EXCEPT ![c] = "chanE"]
              /\ UNCHANGED panicked
    /\ UNCHANGED << clientVars, cancelled, childVars, stdout, messages, errors, errorsClosed,
                    ctlVars, readerVars, intrVars, clVia, teardowns, closeOnce, done, sends,
                    received >>

\* close(t.errors); the Once is done and close() returns finalErr (nil)
TCloseErrors(c) ==
    /\ Running
    /\ clPc[c] = "chanE"
    /\ IF errorsClosed
         THEN panicked' = "close of closed channel" /\ UNCHANGED << errorsClosed, closeCount, clPc, closeOnce >>
         ELSE /\ errorsClosed' = TRUE
              /\ closeCount' = [closeCount EXCEPT !.errors = @ + 1]
              /\ clPc' = [clPc EXCEPT ![c] = "returned"]
              /\ closeOnce' = "done"
              /\ UNCHANGED panicked
    /\ UNCHANGED << clientVars, cancelled, childVars, stdout, messages, messagesClosed,
                    errors, ctlVars, readerVars, intrVars, clVia, teardowns, done, sends,
                    received >>

\* ---------------------------------------------------------------- Query
TextBlock(t) == [type |-> "text", text |-> t]
ToolUseBlock == [type |-> "tool_use", text |-> ""]

\* Everything Query leaves alone while it runs its loop.
qRest == << connected, closed, transport, sessVars, auxVars, cancelled, childVars, stdout,
           ctlVars, readerVars, intrVars, sends, received, panicked >>

\* Query returns: the deferred transport.close() is entered.
QueryReturn(ret) ==
    /\ qRet' = ret /\ qPc' = "returned"
    /\ clPc' = [clPc EXCEPT !["A"] = "enter"]
    /\ clVia' = [clVia EXCEPT !["A"] = "transport"]
    /\ UNCHANGED << teardowns, closeCount, closeOnce, done >>

\* Query up to its loop: newTransportForQuery starts the child with the
\* caller's context and the two readers, closeStdin closes the child's
\* input, and a goroutine is started on transport.wait().
QueryStart ==
    /\ Running
    /\ qPc = "idle" /\ "spawn" \notin cancelled
    /\ child' = "running" /\ stdinOpen' = FALSE
    /\ spawns' = spawns + 1
    /\ rdPc' = "scan" /\ errPc' = "read"
    /\ waitPc' = "waiting"
    /\ qPc' = "loop"
    /\ UNCHANGED << connected, closed, transport, history, calls, smPc, smOp, smHold,
                    delivered, cnPc, cnOp, cnHold, qMsgs, qResult, qRet, waitDone,
                    exitCode, cancelled, killer, stdoutClosed, stdout, chanVars, ctlVars,
                    rdItem, rdPos, intrVars, closeVars, sends, received, panicked,
                    snapVars, writeVars, extVars, diagVars >>

\* transport.wait, t.cmd.Wait(): returns once the child has ended, and closes
\* the parent's end of the stdout pipe whether or not the reader has read
\* everything. A child that was killed or exited with a non-zero status
\* gives an ExitError.
WaitReap ==
    /\ Running
    /\ waitPc = "waiting" /\ child \in {"exited", "killed"}
    /\ stdoutClosed' = TRUE
    /\ waitPc' = IF child = "killed" \/ exitCode # 0 THEN "ProcessError" ELSE "nil"
    /\ UNCHANGED << connected, closed, transport, sessVars, auxVars, qPc, qMsgs, qResult, qRet,
                    waitDone, exitCode, cancelled, child, killer, stdinOpen, stdout,
                    chanVars, ctlVars, readerVars, intrVars, closeVars, sends, received,
                    panicked >>

\* time.Sleep(100 * time.Millisecond), the error is built, and the goroutine
\* does waitDone <- transport.wait()
WaitSend ==
    /\ Running
    /\ waitPc \in {"nil", "ProcessError"}
    /\ waitDone' = waitPc
    /\ waitPc' = "done"
    /\ UNCHANGED << connected, closed, transport, sessVars, auxVars, qPc, qMsgs, qResult, qRet,
                    exitCode, cancelled, childVars, stdout, chanVars, ctlVars, readerVars,
                    intrVars, closeVars, sends, received, panicked >>

\* case <-ctx.Done(): return nil, ctx.Err()
QCtx ==
    /\ Running
    /\ qPc = "loop" /\ "spawn" \in cancelled
    /\ QueryReturn("context canceled")
    /\ UNCHANGED << qMsgs, qResult, waitPc, waitDone, exitCode, chanVars, qRest >>

\* case <-timeout.C: return nil, fmt.Errorf("query timeout after 30 minutes")
QTimeout ==
    /\ Running
    /\ qPc = "loop"
    /\ QueryReturn("query timeout")
    /\ UNCHANGED << qMsgs, qResult, waitPc, waitDone, exitCode, chanVars, qRest >>

\* case err := <-errorChan: if err != nil { return nil, err }
QErr ==
    /\ Running
    /\ qPc = "loop" /\ errors # <<>>
    /\ errors' = Tail(errors)
    /\ QueryReturn(Head(errors).type)
    /\ UNCHANGED << qMsgs, qResult, waitPc, waitDone, exitCode, messages, messagesClosed,
                    errorsClosed, qRest >>

\* case msg, ok := <-messageChan: the message is appended to result.Messages
\* and a ResultMessage is kept as result.Result
QMsg ==
    /\ Running
    /\ qPc = "loop" /\ messages # <<>>
    /\ messages' = Tail(messages)
    /\ qMsgs' = Append(qMsgs, Head(messages))
    /\ qResult' = IF Head(messages).type = "result" THEN Head(messages) ELSE qResult
    /\ UNCHANGED << qPc, qRet, waitPc, waitDone, exitCode, messagesClosed, errors,
                    errorsClosed, closeVars, qRest >>

\* case err := <-waitDone: the error is returned, or the loop is left and
\* the result is assembled and returned
QWaitDone ==
    /\ Running
    /\ qPc = "loop" /\ waitDone \in {"nil", "ProcessError"}
    /\ QueryReturn(IF waitDone = "nil" THEN "ok" ELSE waitDone)
    /\ waitDone' = "taken"
    /\ UNCHANGED << qMsgs, qResult, waitPc, exitCode, chanVars, qRest >>

\* The texts of the TextBlocks of the assistant messages in msgs, in order.
RECURSIVE BlockTexts(_)
BlockTexts(bs) ==
    IF bs = <<>> THEN <<>>
    ELSE (IF Head(bs).type = "text" THEN << Head(bs).text >> ELSE <<>>)
            \o BlockTexts(Tail(bs))

RECURSIVE TextParts(_)
TextParts(msgs) ==
    IF msgs = <<>> THEN <<>>
    ELSE (IF Head(msgs).type = "assistant"
            THEN BlockTexts(stdout[Head(msgs).n].blocks) ELSE <<>>)
            \o TextParts(Tail(msgs))

\* strings.Join(parts, "\n")
RECURSIVE Join(_)
Join(parts) ==
    IF parts = <<>> THEN ""
    ELSE IF Len(parts) = 1 THEN parts[1]
    ELSE parts[1] \o "\n" \o Join(Tail(parts))

\* result.Stdout of the QueryResult Query returns
QueryStdout == Join(TextParts(qMsgs))

\* ------------------------------------------------------ specifications
Asst   == Frame("assistant", "payload")
Result == Frame("system", "result")

\* The stream: the reader, one control request and the consumer of the
\* inbound queue, over every child output of up to MaxLines lines.
StreamLines ==
    { Asst, Result, Frame("user", "{}"), Frame("tool", "payload"), GarbageLine,
      BlankLine, BadCtrlFrame, CtrlFrame(0, TRUE), CtrlFrame(1, TRUE) }

Init == InitWith(SeqsUpTo(StreamLines, MaxLines))

Next ==
       \/ Connect("", TRUE)
       \/ Consume
       \/ ChildExit
       \/ ReaderScan \/ ReaderRoute \/ ReaderPushMsg \/ ReaderPushErr \/ ReaderEOF
       \/ IntrStart(1) \/ IntrRecv(1) \/ IntrTimeout(1) \/ IntrCleanup(1)

Spec == Init /\ [][Next]_vars

\* Shutdown: two callers of close(), the contexts, and the reader.
InitClose == InitWith(SeqsUpTo({Asst, GarbageLine}, CloseLines))

NextClose ==
       \/ Connect("", TRUE)
       \/ \E c \in Contexts : Cancel(c)
       \/ ChildExit
       \/ ReaderScan \/ ReaderPushMsg \/ ReaderPushErr
       \/ ReaderEOF \/ ReaderAbort \/ ReaderReadErr
       \/ \E c \in Closers :
            \/ ClientClose(c) \/ TransportClose(c) \/ TCloseEnter(c)
            \/ TCloseKill(c) \/ TCloseMessages(c) \/ TCloseErrors(c)

SpecClose == InitClose /\ [][NextClose]_vars

\* The control correlator: MaxReq concurrent requests and every order of
\* responses, known and unknown identifiers, between conversation frames.
CtlStream ==
    { CtrlFrame(r, TRUE) : r \in 0..MaxReq } \cup { CtrlFrame(1, FALSE), Asst }

InitCtl == InitWith(SeqsUpTo(CtlStream, CtlLines))

NextCtl ==
       \/ Connect("", TRUE)
       \/ Cancel("op")
       \/ ChildExit
       \/ ReaderScan \/ ReaderRoute \/ ReaderPushMsg \/ ReaderEOF
       \/ \E r \in ReqIds :
            \/ IntrStart(r) \/ IntrRecv(r) \/ IntrTimeout(r)
            \/ IntrCancel(r) \/ IntrCleanup(r)

SpecCtl == InitCtl /\ [][NextCtl]_vars

\* A child that never answers control requests.
InitSend == InitWith(SeqsUpTo({Asst, Result}, CtlLines))

NextSend ==
       \/ \E p \in {"", "hi"} : Connect(p, TRUE)
       \/ SendMessage
       \/ ChildExit
       \/ Consume
       \/ ReaderScan \/ ReaderPushMsg \/ ReaderEOF \/ ReaderAbort \/ ReaderReadErr
       \/ ReaderPushErr
       \/ IntrStart(1) \/ IntrTimeout(1) \/ IntrCleanup(1)
       \/ ClientClose("A") \/ TCloseEnter("A") \/ TCloseKill("A")
       \/ TCloseMessages("A") \/ TCloseErrors("A")

SpecSend == InitSend /\ [][NextSend]_vars

\* Decode failures: a running child emits some lines that fail to decode and
\* then a well-formed frame, up to one failure more than the error queue
\* holds. The reader and the consumer of the inbound queue always get to run;
\* nothing obliges anyone to read the error queue.
BadLines == { GarbageLine, Frame("tool", "payload") }

LiveScripts ==
    { [i \in 1..(k + 1) |-> IF i <= k THEN b ELSE Asst] :
        k \in 0..(ErrorsCap + 1), b \in BadLines }

InitLive == InitWith(LiveScripts)

NextLive ==
       \/ Connect("", TRUE)
       \/ ReaderScan \/ ReaderPushMsg \/ ReaderPushErr
       \/ Consume \/ ConsumeErr

FairLive ==
    /\ WF_vars(Connect("", TRUE))
    /\ WF_vars(ReaderScan) /\ WF_vars(ReaderPushMsg) /\ WF_vars(ReaderPushErr)
    /\ WF_vars(Consume)

SpecLive == InitLive /\ [][NextLive]_vars /\ FairLive

\* Client.SendInterrupt passing its state check: sendInterrupt starts.
SendInterruptAccepted(r) ==
    /\ SendCheck = "none"
    /\ IntrStart(r)

\* The Client's state machine: every operation from every state, two callers
\* of Close, a child that emits at most a result.
ClientScripts == { <<>>, << Result >> }

InitClient == InitWith(ClientScripts)

NextClient ==
       \/ Connect("", TRUE)
       \/ \E ok \in BOOLEAN : ConnectRefused(ok)
       \/ ClientSendMessage
       \/ SendInterruptRefused
       \/ SendInterruptAccepted(1) \/ IntrTimeout(1) \/ IntrCleanup(1)
       \/ \E op \in {"StreamMessages", "ReceiveResponse"} : StreamStart(op)
       \/ SmRecv \/ SmAppend \/ SmOut \/ SmEnd \/ SmErr
       \/ WaitStart \/ NextStart
       \/ CnRecv \/ CnAppend \/ CnErr \/ CnClosed
       \/ ReaderScan \/ ReaderPushMsg \/ ReaderPushErr \/ ReaderAbort \/ ReaderReadErr
       \/ ClientClose("A") \/ TCloseEnter("A") \/ TCloseKill("A")
       \/ TCloseMessages("A") \/ TCloseErrors("A")

SpecClient == InitClient /\ [][NextClient]_vars

\* The session history: the goroutine of StreamMessages or ReceiveResponse
\* and a caller of WaitForResult or Next consume the inbound queue side by
\* side, and the operation context may be cancelled.
InitSession == InitWith(SeqsUpTo({Asst, Result}, SessLines))

NextSession ==
       \/ Connect("", TRUE)
       \/ Cancel("op")
       \/ ReaderScan \/ ReaderPushMsg
       \/ \E op \in {"StreamMessages", "ReceiveResponse"} : StreamStart(op)
       \/ SmRecv \/ SmAppend \/ SmOut \/ SmCancel
       \/ WaitStart \/ NextStart
       \/ CnRecv \/ CnAppend \/ CnCancel

SpecSession == InitSession /\ [][NextSession]_vars

\* The diagnostic reader of a one-shot transport and a collectStderr call.
InitStderr == InitWith({<<>>})

NextStderr ==
       \/ QueryStart
       \/ ChildExit
       \/ \E n \in 1..ChunkMax : ErrRead(n)
       \/ ErrStore \/ ErrEOF
       \/ CsStart \/ Tock \/ CsPoll \/ CsResult \/ CsTimeout

SpecStderr == InitStderr /\ [][NextStderr]_vars

\* Two goroutines sending user turns and interrupts to a child that may exit.
NextWrite ==
       \/ Connect("", TRUE)
       \/ ChildExit
       \/ \E w \in Writers :
            \/ \E kind \in {"user", "control_request"} : WriteCall(w, kind)
            \/ WriteLock(w) \/ WriteBody(w) \/ WriteNewline(w)

InitWrite == InitWith({<<>>})

SpecWrite == InitWrite /\ [][NextWrite]_vars

\* ReceiveResponse on a child whose output has lines that do not decode.
InitResp == InitWith(SeqsUpTo({Asst, GarbageLine, Result}, SessLines))

NextResp ==
       \/ Connect("", TRUE)
       \/ Cancel("op")
       \/ ReaderScan \/ ReaderPushMsg \/ ReaderPushErr
       \/ StreamStart("ReceiveResponse")
       \/ SmRecv \/ SmAppend \/ SmOut \/ SmCancel \/ SmErr

SpecResp == InitResp /\ [][NextResp]_vars

\* A connected client whose caller sends and looks at the history but
\* starts no consumption operation. Every goroutine keeps running.
NextIdle ==
       \/ Connect("", TRUE)
       \/ ClientSendMessage
       \/ ReaderScan \/ ReaderPushMsg
       \/ GetMessages

FairIdle ==
    /\ WF_vars(Connect("", TRUE)) /\ WF_vars(ClientSendMessage)
    /\ WF_vars(ReaderScan) /\ WF_vars(ReaderPushMsg)
    /\ WF_vars(GetMessages)

SpecIdle == InitSession /\ [][NextIdle]_vars /\ FairIdle

\* GetMessages and a caller that changes the slice it returned, next to
\* WaitForResult and Next filling the history with the assistant messages
\* of the child.
InitSnapshot == InitWith(SeqsUpTo({Asst}, SessLines))

NextSnapshot ==
       \/ Connect("", TRUE)
       \/ ReaderScan \/ ReaderPushMsg
       \/ WaitStart \/ NextStart
       \/ CnRecv \/ CnAppend
       \/ GetMessages \/ SnapAppend
       \/ \E i \in 1..SessLines : SnapOverwrite(i)

SpecSnapshot == InitSnapshot /\ [][NextSnapshot]_vars

\* The one-shot Query: a child that emits up to QueryLines lines and exits
\* with status 0 or 1, the message reader, the goroutine on transport.wait(),
\* the caller's context, and Query's loop and deferred close.
QueryLineSet ==
    { AsstFrame(<< TextBlock("a"), ToolUseBlock >>), AsstFrame(<< TextBlock("b") >>),
      Result, GarbageLine }

\* The child writes nothing after its terminal result.
QueryScripts ==
    { s \in SeqsUpTo(QueryLineSet, QueryLines) :
        \A i \in 1..(Len(s) - 1) : s[i] # Result }

InitQuery == InitBase(QueryScripts, {0, 1})

NextQuery ==
       \/ QueryStart
       \/ Cancel("spawn")
       \/ ChildExit
       \/ WaitReap \/ WaitSend
       \/ ReaderScan \/ ReaderPushMsg \/ ReaderPushErr
       \/ ReaderEOF \/ ReaderReadErr \/ ReaderAbort
       \/ QCtx \/ QTimeout \/ QErr \/ QMsg \/ QWaitDone
       \/ TCloseEnter("A") \/ TCloseKill("A") \/ TCloseMessages("A") \/ TCloseErrors("A")

SpecQuery == InitQuery /\ [][NextQuery]_vars

\* Shutdown of the two background readers: one control request whose
\* response the child may send twice, conversation frames and lines that do
\* not decode, diagnostics on stderr, and one caller of Close. Every
\* goroutine that can take a step eventually takes it, and the timer of a
\* waiting sendInterrupt eventually fires.
StopStream == { CtrlFrame(1, TRUE), Asst, GarbageLine }

InitStop == InitWith(SeqsUpTo(StopStream, CtlLines))

NextStop ==
       \/ Connect("", TRUE)
       \/ ChildExit
       \/ ReaderScan \/ ReaderRoute \/ ReaderPushMsg \/ ReaderPushErr
       \/ ReaderEOF \/ ReaderAbort \/ ReaderReadErr
       \/ ErrRead(ChunkMax) \/ ErrStore \/ ErrEOF \/ ErrDone \/ ErrClosed
       \/ ErrPushErr \/ ErrAbort
       \/ SendInterruptAccepted(1) \/ IntrRecv(1) \/ IntrTimeout(1) \/ IntrCleanup(1)
       \/ ClientClose("A") \/ TCloseEnter("A") \/ TCloseKill("A")
       \/ TCloseMessages("A") \/ TCloseErrors("A")

FairStop ==
    /\ WF_vars(ReaderScan) /\ WF_vars(ReaderRoute) /\ WF_vars(ReaderPushMsg)
    /\ WF_vars(ReaderPushErr) /\ WF_vars(ReaderEOF) /\ WF_vars(ReaderAbort)
    /\ WF_vars(ReaderReadErr)
    /\ WF_vars(ErrRead(ChunkMax)) /\ WF_vars(ErrStore) /\ WF_vars(ErrEOF)
    /\ WF_vars(ErrDone) /\ WF_vars(ErrClosed) /\ WF_vars(ErrPushErr) /\ WF_vars(ErrAbort)
    /\ WF_vars(IntrRecv(1)) /\ WF_vars(IntrTimeout(1)) /\ WF_vars(IntrCleanup(1))
    /\ WF_vars(TCloseEnter("A")) /\ WF_vars(TCloseKill("A"))
    /\ WF_vars(TCloseMessages("A")) /\ WF_vars(TCloseErrors("A"))

SpecStop == InitStop /\ [][NextStop]_vars /\ FairStop

\* A backlog: the child emits conversation frames, up to one more than the
\* inbound queue holds, and then its answer to control request 1. Nothing
\* reads the inbound queue. The answer comes within sendInterrupt's timeout,
\* so the timer is left out; the reader and the caller always get to run.
BacklogScripts ==
    { [i \in 1..(k + 1) |-> IF i <= k THEN Asst ELSE CtrlFrame(1, TRUE)] :
        k \in {0, MessagesCap, MessagesCap + 1} }

InitBacklog == InitWith(BacklogScripts)

NextBacklog ==
       \/ Connect("", TRUE)
       \/ SendInterruptAccepted(1)
       \/ ReaderScan \/ ReaderPushMsg
       \/ IntrRecv(1) \/ IntrCleanup(1)

FairBacklog ==
    /\ WF_vars(ReaderScan) /\ WF_vars(ReaderPushMsg)
    /\ WF_vars(IntrRecv(1)) /\ WF_vars(IntrCleanup(1))

SpecBacklog == InitBacklog /\ [][NextBacklog]_vars /\ FairBacklog

\* The Client's life cycle: Connect with and without a prompt, succeeding,
\* refused, failing to start the child and failing to send the prompt;
\* SendMessage; the reader; two callers of Close.
InitConnect == InitWith(ClientScripts)

NextConnect ==
       \/ \E p \in {"", "hi"} : Connect(p, TRUE)
       \/ \E ok \in BOOLEAN : ConnectRefused(ok)
       \/ ConnectSendFails("hi")
       \/ ClientSendMessage
       \/ ChildExit
       \/ ReaderScan \/ ReaderPushMsg \/ ReaderEOF
       \/ \E c \in Closers :
            \/ ClientClose(c) \/ TCloseEnter(c)
            \/ TCloseKill(c) \/ TCloseMessages(c) \/ TCloseErrors(c)

SpecConnect == InitConnect /\ [][NextConnect]_vars

\* The three pipes of the child under load: two senders of user turns, the
\* diagnostic reader and the child.
InitPipes == InitWith({<<>>})

NextPipes ==
       \/ Connect("", TRUE)
       \/ \E w \in Writers :
            \/ WriteCall(w, "user") \/ WriteLock(w) \/ WritePart(w) \/ WriteNewline(w)
       \/ ChildWriteErr \/ ChildReadIn
       \/ \E n \in 1..ChunkMax : ErrReadPipe(n)
       \/ ErrStore

SpecPipes == InitPipes /\ [][NextPipes]_vars

\* The codec alone: parseMessage applied to every discriminator and body.
\* "result" as a discriminator, "tool_use" and "" stand for the types the
\* switch does not name.
MsgTypes == {"user", "assistant", "system", "result", "tool_use", ""}
Bodies == {"", "null", "{}", "payload", "result", "mismatch"}

pRest == << connected, closed, transport, sessVars, queryVars, snapVars, writeVars, errPc,
           diagVars, cancelled, childVars, stdout, chanVars, ctlVars, readerVars, intrVars,
           closeVars, sends, received, panicked >>

\* p.parseMessage(msgType, data)
ParseCall(msgType, data) ==
    /\ Running
    /\ Len(parsed) < MaxParses
    /\ parsed' = Append(parsed, [type |-> msgType, data |-> data,
                                 out |-> parseMessage(msgType, data, Len(parsed) + 1)])
    /\ UNCHANGED << pRest, pipeVars >>

InitCodec == InitWith({<<>>})

NextCodec == \E t \in MsgTypes, d \in Bodies : ParseCall(t, d)

SpecCodec == InitCodec /\ [][NextCodec]_vars

\* --------------------------------------------------------------- claims
Range(q) == { q[i] : i \in 1..Len(q) }

\* The message the reader holds while it waits to send it.
InHand == IF rdPc = "sendMsg" THEN <<rdItem>> ELSE <<>>

\* Everything the reader has produced for the inbound queue, in the order a
\* single consumer sees it: what it has received, what is queued, what the
\* reader is about to send.
Inbound == received \o messages \o InHand

IsControlFrame(line) == line.raw = "json" /\ line.type = "control_response"

\* A conversation frame that decodes to a message: a well-formed record of a
\* known type whose message is an object.
Decodable(line) ==
    /\ line.raw = "json"
    /\ line.type \in {"user", "assistant", "system"}
    /\ line.body \in {"payload", "result"}

VariantOf(line) ==
    IF line.type = "system" /\ line.body = "result" THEN "result" ELSE line.type

\* The messages of the decodable conversation frames among lines 1..k.
RECURSIVE Emitted(_)
Emitted(k) ==
    IF k = 0 THEN <<>>
    ELSE IF Decodable(stdout[k])
      THEN Append(Emitted(k - 1), Msg(VariantOf(stdout[k]), k))
      ELSE Emitted(k - 1)

\* C1: no control-response frame is ever on the inbound queue, in the
\* reader's hand for it, or received by the consumer; and a well-formed
\* control response leaves nothing on the error queue either.
C1_NoControlFrameDelivered ==
    /\ \A m \in Range(Inbound) : ~IsControlFrame(stdout[m.n])
    /\ \A e \in Range(errors) :
         e.n > 0 => ~(IsControlFrame(stdout[e.n]) /\ stdout[e.n].body = "response")

\* A control response was routed to its waiting request and a conversation
\* frame emitted after it was received by the consumer.
C1_Witness ==
    \E i \in 1..Len(stdout) : \E m \in Range(received) :
        /\ IsControlFrame(stdout[i]) /\ i < m.n
        /\ intrGot[1].n = i

\* C2: the consumer of the inbound queue receives the messages of the
\* decodable conversation frames in emission order, none reordered,
\* duplicated or skipped: what was received, is queued and is being sent is
\* at every moment exactly the messages of the lines read so far.
C2_DeliveredInEmissionOrder == Inbound = Emitted(rdPos)

\* Two messages were received with a line that is no message between them.
C2_Witness ==
    /\ Len(received) >= 2
    /\ received[2].n > received[1].n + 1

\* The scenario of C9: the child has emitted a valid frame, the line
\* `not json` and a valid frame, and the reader is through with the stream:
\* it has returned, or it has dealt with all three lines and waits for more.
C9_Scenario ==
    /\ Len(stdout) = 3
    /\ Decodable(stdout[1]) /\ stdout[2] = GarbageLine /\ Decodable(stdout[3])
    /\ rdPc = "stopped" \/ (rdPos = 3 /\ rdPc = "scan")

\* C9: in that scenario the error queue holds exactly one decode error (for
\* line 2) and both valid frames were delivered in their emitted order.
C9_OneErrorBothDelivered ==
    C9_Scenario =>
        /\ errors = << Err("CLIJSONDecodeError", 2) >>
        /\ received \o messages =
             << Msg(VariantOf(stdout[1]), 1), Msg(VariantOf(stdout[3]), 3) >>

C9_Witness == C9_Scenario /\ Len(received) = 2 /\ Len(errors) = 1

\* C3: with two concurrent callers of close(), through Client.Close or on
\* the transport, the teardown runs at most once, each queue is closed at
\* most once and no channel is closed twice; a caller that has returned from
\* transport.close() has seen exactly one teardown run.
C3_TeardownOnce ==
    /\ teardowns <= 1
    /\ closeCount.messages <= 1 /\ closeCount.errors <= 1
    /\ panicked # "close of closed channel"
    /\ \A c \in Closers :
         (clPc[c] = "returned" /\ clVia[c] = "transport") => teardowns = 1

\* One caller is inside the teardown while the other has called close() and
\* waits on the Once.
C3_Witness ==
    /\ clPc["A"] = "chanE" /\ clPc["B"] = "enter"
    /\ clVia["A"] = "transport" /\ clVia["B"] = "transport"

\* C4: when a call to close() returns on a client or transport that was
\* spawned, both queues are closed.
C4_QueuesClosedOnReturn ==
    \A c \in Closers :
        (clPc[c] = "returned" /\ transport) => (messagesClosed /\ errorsClosed)

C6_NoRegistrationLeft ==
    \A r \in ReqIds : intrPc[r] = "returned" => controlResp[r] = Absent

\* Two calls have returned, one cancelled and one on a timeout.
C6_Witness ==
    \E r, q \in ReqIds :
        /\ intrPc[r] = "returned" /\ intrRes[r] = "cancelled"
        /\ intrPc[q] = "returned" /\ intrRes[q] = "timeout"

\* C8: a caller only ever receives a response that carries its own request
\* identifier, and its result is that response's success flag; a response in
\* a slot carries the identifier of the slot. A response with an identifier
\* that matches no pending request therefore reaches no caller.
C8_MatchedByIdentifier ==
    /\ \A r \in ReqIds :
         controlResp[r].kind = "resp" => stdout[controlResp[r].n].rid = r
    /\ \A r \in ReqIds :
         intrGot[r] # Nil =>
            /\ stdout[intrGot[r].n].rid = r
            /\ intrRes[r] = (IF stdout[intrGot[r].n].success THEN "ok" ELSE "failed")

\* Two requests were pending together and answered in the reverse order.
C8_Witness ==
    /\ intrGot[1] # Nil /\ intrGot[2] # Nil
    /\ intrGot[2].n < intrGot[1].n

\* C7: a child that never replies makes sendInterrupt end on its timeout (or
\* on a failed write), and the timeout leaves the transport as it was: while
\* nobody has closed it and the child runs, its input is open, the reader
\* runs with controlMu free, and a sendMessage made after the timeout
\* succeeded.
C7_UsableAfterTimeout ==
    /\ \A r \in ReqIds :
         intrPc[r] = "returned" => intrRes[r] \in {"timeout", "writeerr"}
    /\ \A i \in 1..Len(sends) :
         (sends[i].afterTimeout /\ sends[i].quiet) => sends[i].res = "ok"
    /\ ((\E r \in ReqIds : intrRes[r] = "timeout") /\ closeOnce = "idle"
            /\ child = "running")
         => /\ stdinOpen /\ ~done /\ ~stdoutClosed
            /\ rdPc \in {"scan", "sendMsg"} /\ controlMu = "free"

\* After a timed-out interrupt a sendMessage succeeded and a message the
\* child emitted was received.
C7_Witness ==
    /\ \E r \in ReqIds : intrPc[r] = "returned" /\ intrRes[r] = "timeout"
    /\ \E i \in 1..Len(sends) : sends[i].afterTimeout /\ sends[i].res = "ok"
    /\ Len(received) >= 1 /\ closeOnce = "idle" /\ child = "running"

\* C10: every well-formed conversation frame the child emits is eventually
\* pushed to the inbound queue, whatever number of lines that fail to decode
\* came before it, as long as the consumer of the inbound queue keeps reading.
C10_ValidFrameEventuallyPushed ==
    \A i \in 1..(ErrorsCap + 2) :
        <>(\/ i > Len(stdout)
           \/ ~Decodable(stdout[i])
           \/ \E m \in Range(received \o messages) : m.n = i)

\* C11: a Connect made on a connected client returns the already-connected
\* error, starts no child, and leaves the client connected with the transport,
\* child, pipes, reader and queues it had.
C11_SecondConnectRefused ==
    [][(/\ connected
        /\ Len(calls') > Len(calls)
        /\ calls'[Len(calls')].op = "Connect")
          => /\ calls'[Len(calls')].err = "client is already connected"
             /\ connected' /\ transport'
             /\ UNCHANGED << spawns, childVars, readerVars, chanVars, stdout >>]_vars

\* A second Connect was refused on a connected client with one child started.
C11_Witness ==
    /\ connected /\ transport /\ spawns = 1 /\ child = "running"
    /\ \E i \in 1..Len(calls) :
         /\ calls[i].op = "Connect" /\ calls[i].pre = "Connected"
         /\ calls[i].err = "client is already connected"

\* C12: on a client that was never connected, each of SendMessage,
\* SendInterrupt, WaitForResult, StreamMessages, ReceiveResponse and the
\* iterator's Next returns the not-connected error.
C12_UnconnectedOpsRefused ==
    \A i \in 1..Len(calls) :
        (/\ calls[i].pre = "Unconnected" /\ ~calls[i].had
         /\ calls[i].op \in {"SendMessage", "SendInterrupt", "WaitForResult",
                              "StreamMessages", "ReceiveResponse", "Next"})
          => calls[i].err = "client is not connected"

\* C13: once a Close has returned, each of Connect, SendMessage,
\* SendInterrupt, WaitForResult and the iterator's Next returns the
\* client-closed error, and a further Close returns without error.
C13_ClosedOpsRefused ==
    \A i \in 1..Len(calls) :
        calls[i].afterClose =>
            /\ calls[i].op \in {"Connect", "SendMessage", "SendInterrupt",
                                 "WaitForResult", "Next"}
                  => calls[i].err = "client is closed"
            /\ calls[i].op = "Close" => calls[i].err = "none"

\* Messages a consumption operation has taken from the inbound queue and is
\* about to append to the history.
Holds ==
    (IF smPc = "append" THEN {smHold} ELSE {}) \cup (IF cnPc = "append" THEN {cnHold} ELSE {})

\* C19: the history only grows at its end, and it holds every message that
\* StreamMessages, ReceiveResponse, WaitForResult or Next took from the
\* inbound queue exactly once (a message just taken is appended by the next
\* step of the operation that took it).
C19_HistoryRecordsConsumed ==
    /\ [](/\ Range(history) \cup Holds = Range(received)
          /\ Len(history) + Cardinality(Holds) = Len(received)
          /\ Cardinality(Range(history)) = Len(history))
    /\ [][/\ Len(history') >= Len(history)
          /\ SubSeq(history', 1, Len(history)) = history]_vars

\* Two consumption paths have each recorded messages: the stream delivered
\* some of the history and a WaitForResult or Next call returned the rest.
C19_Witness ==
    /\ Len(history) >= 2 /\ Len(delivered) >= 1 /\ Len(delivered) < Len(history)
    /\ \E i \in 1..Len(calls) :
         calls[i].op \in {"WaitForResult", "Next"} /\ calls[i].err = "none"

\* C20: with StreamMessages the only consumption path, once its output
\* channel is closed the history is exactly the sequence of messages
\* delivered on that channel.
C20_HistoryEqualsDelivered ==
    (/\ smPc = "closed" /\ smOp.op = "StreamMessages"
     /\ cnPc = "idle"
     /\ \A i \in 1..Len(calls) : calls[i].op \notin {"WaitForResult", "Next"})
      => history = delivered

\* C21: with StreamMessages or ReceiveResponse the only consumption path,
\* every message taken from the inbound queue has been delivered on the
\* output channel, is about to be (the goroutine holds it), or is still in
\* the inbound queue for a later consumer: cancellation loses no message.
C21_CancelLosesNoMessage ==
    (/\ cnPc = "idle"
     /\ \A i \in 1..Len(calls) : calls[i].op \notin {"WaitForResult", "Next"})
      => \A m \in Range(received) :
            \/ m \in Range(delivered)
            \/ smPc \in {"append", "out"} /\ m = smHold
            \/ m \in Range(messages)

\* C22: once a SendMessage has succeeded and the child's reply is in the
\* inbound queue, the history eventually is not empty, with no
\* consumption operation started.
C22_HistoryFillsUnconsumed ==
    [](((\E i \in 1..Len(calls) : calls[i].op = "SendMessage" /\ calls[i].err = "none")
         /\ messages # <<>>)
        => <>(history # <<>>))

\* C23: the slice GetMessages returns is a copy. The live history (the
\* elements of c.messages) is always what the consumption operations have
\* appended, whatever the caller appends to or overwrites in a returned
\* slice; a caller's step leaves it as it was, and every GetMessages
\* returns exactly the live history.
C23_GetMessagesCopies ==
    /\ [](View(heap, cmsgs) = history)
    /\ [][(snapOps' # snapOps /\ snapOps'[Len(snapOps')] \in {"append", "overwrite"})
            => View(heap', cmsgs') = View(heap, cmsgs)]_vars
    /\ [][(snapOps' # snapOps /\ snapOps'[Len(snapOps')] = "get")
            => View(heap', snap') = history']_vars

\* A caller overwrote an element of a returned slice and appended to it,
\* then called GetMessages again, on a history of two messages or more.
C23_Witness ==
    /\ Len(history) >= 2
    /\ \E i, j, k \in 1..Len(snapOps) :
         /\ i < k /\ j < k
         /\ snapOps[i] = "overwrite" /\ snapOps[j] = "append" /\ snapOps[k] = "get"
    /\ View(heap, snap) = history

\* C24: the channel StreamMessages returned is closed only after the
\* consumer's context was cancelled or the inbound queue was closed.
C24_StreamClosedOnlyOnEvent ==
    (smPc = "closed" /\ smOp.op = "StreamMessages")
      => ("op" \in cancelled \/ messagesClosed)

\* C25: a ReceiveResponse whose context is not cancelled closes its channel
\* only after it has delivered the next ResultMessage, which is the last
\* element delivered and the only result, and everything it took from the
\* inbound queue before it was delivered, in order.
C25_ResponseEndsWithResult ==
    (/\ smOp.op = "ReceiveResponse" /\ smOp.pre = "Connected"
     /\ smPc = "closed" /\ "op" \notin cancelled)
      => /\ delivered # <<>>
         /\ delivered[Len(delivered)].type = "result"
         /\ \A i \in 1..(Len(delivered) - 1) : delivered[i].type # "result"
         /\ delivered = received

\* C26: a WaitForResult that returns without an error returns a
\* ResultMessage, the last message of the history; otherwise it returns an
\* error: the client's state, an item of the error queue, the context's
\* error or the closure of the inbound queue.
C26_WaitReturnsResultOrError ==
    \A i \in 1..Len(calls) :
       calls[i].op = "WaitForResult"
         => /\ calls[i].err \in {"none", "client is not connected", "context canceled",
                                 "message channel closed", "CLIConnectionError",
                                 "CLIJSONDecodeError", "MessageParseError"}
            /\ calls[i].err = "none"
                 => \E k \in 1..Len(history) : history[k].type = "result"

\* C27: what has reached the child's input is a sequence of whole frames,
\* each a body directly followed by its own newline, with at most a body
\* whose newline is still to come at the very end.
C27_FramesContiguous ==
    \A i \in 1..Len(pipe) :
       /\ pipe[i].part = "body"
            => \/ i = Len(pipe)
               \/ /\ pipe[i + 1].part = "newline"
                  /\ pipe[i + 1].w = pipe[i].w /\ pipe[i + 1].f = pipe[i].f
       /\ pipe[i].part = "newline"
            => /\ i > 1
               /\ pipe[i - 1].part = "body"
               /\ pipe[i - 1].w = pipe[i].w /\ pipe[i - 1].f = pipe[i].f

\* A sender has written its body and not yet its newline while the other
\* sender, of the other kind of frame, waits for the lock, and a whole
\* frame is in the pipe already.
C27_Witness ==
    \E w1, w2 \in Writers :
       /\ wPc[w1].pc = "newline" /\ wPc[w2].pc = "lock"
       /\ wPc[w1].kind # wPc[w2].kind
       /\ Len(pipe) >= 3

\* C28: once bytes have been read from the child's stderr and stored, the
\* captured diagnostics end with the byte read last.
C28_NewestBytesKept ==
    (stderrRead > 0 /\ errPc # "store")
      => /\ stderrBuf # <<>>
         /\ stderrBuf[Len(stderrBuf)] = stderrRead

\* C29: the diagnostic buffer never holds more than maxStderrSize bytes.
C29_BufferWithinCap == Len(stderrBuf) <= maxStderrSize

\* The buffer is full to the cap and a chunk has been dropped.
C29_Witness ==
    /\ Len(stderrBuf) = maxStderrSize
    /\ stderrRead > maxStderrSize /\ errPc = "read"

\* Poll i of collectStderr found the length it had found at the poll
\* before (0 before the first poll).
Unchanged(i) == polls[i] = (IF i = 1 THEN 0 ELSE polls[i - 1])

\* The last three polls each found the length unchanged.
StableRun ==
    Len(polls) >= 3 /\ \A i \in (Len(polls) - 2)..Len(polls) : Unchanged(i)

\* C30: collectStderr goes on polling only while the last three polls have
\* not all found the length unchanged; it returns for quiescence exactly
\* after three such polls and otherwise when the timeout has elapsed, never
\* later than the timeout, and what it returns is the buffer as it is then.
C30_DrainReturns ==
    /\ [](/\ csPc = "select" => ~StableRun
          /\ csWhy = "stable" => StableRun
          /\ csWhy = "timeout" => (tick = DrainTicks /\ ~StableRun)
          /\ tick <= DrainTicks)
    /\ [][(csPc # "returned" /\ csPc' = "returned") => csRet' = stderrBuf]_vars

\* collectStderr has returned for quiescence before the timeout, with
\* diagnostics that had arrived by its first poll: the fourth poll was the
\* third to find the length unchanged.
C30_Witness ==
    /\ csPc = "returned" /\ csWhy = "stable"
    /\ csRet # <<>> /\ Len(polls) >= 4 /\ ~Unchanged(1)
    /\ tick < DrainTicks

\* C31: the dispatch of parseMessage is total over discriminators: a body
\* that holds an object decodes to a UserMessage under "user", to an
\* AssistantMessage under "assistant", to a ResultMessage under "system"
\* with subtype "result" and to a SystemMessage under "system" otherwise;
\* every other discriminator yields a MessageParseError and no message,
\* whatever the body.
C31_DispatchTotal ==
    \A i \in 1..Len(parsed) :
        LET p == parsed[i] IN
          /\ (p.type = "user" /\ p.data \in {"payload", "result"})
                => p.out = Msg("user", i)
          /\ (p.type = "assistant" /\ p.data \in {"payload", "result"})
                => p.out = Msg("assistant", i)
          /\ (p.type = "system" /\ p.data = "result") => p.out = Msg("result", i)
          /\ (p.type = "system" /\ p.data = "payload") => p.out = Msg("system", i)
          /\ p.type \notin {"user", "assistant", "system"}
                => p.out = Err("MessageParseError", i)

\* C32: once close() has signalled shutdown, the message reader and the
\* diagnostic reader both eventually stop (unless the program has ended in
\* a panic).
C32_ReadersStopAfterClose ==
    [](done => <>(panicked # "no" \/ (rdPc = "stopped" /\ errPc = "stopped")))

\* C33: neither background reader ever sends on a queue that close() has
\* already closed (such a send is a panic).
C33_NoSendOnClosedQueue == panicked # "send on closed channel"

\* C34: routing a control response never blocks the message reader for
\* ever: the reader is never left waiting, with the pending-table lock
\* held, to hand a response to a sendInterrupt call that has already left
\* its select and is waiting for that lock to remove its registration.
C34_RoutingNeverDeadlocks ==
    ~(\E r \in ReqIds :
        /\ rdPc = "route" /\ RouteKey(rdItem.n) = r /\ controlMu = "reader"
        /\ controlResp[r].kind = "resp"
        /\ intrPc[r] = "cleanup")

\* C35: the response the child emits for a pending control request
\* eventually reaches the sendInterrupt call that waits for it, although
\* nobody reads the inbound message queue.
C35_ResponseRoutedUnconsumed ==
    [](intrPc[1] = "waiting" => <>(intrGot[1] # Nil))

\* C36: no call of WaitForResult or of the iterator's Next returns a nil
\* message (or result) together with a nil error.
C36_NeverNilNil ==
    \A i \in 1..Len(calls) :
       calls[i].op \in {"WaitForResult", "Next"} => calls[i].err # "nil"

\* C37: connected and closed are never both true, a connected client has a
\* transport, and Closed is absorbing: a closed client stays closed, is
\* never connected again and starts no new child.
C37_ClosedAbsorbing ==
    /\ [](~(connected /\ closed) /\ (connected => transport))
    /\ [][closed => (closed' /\ ~connected' /\ spawns' = spawns)]_vars

\* A Connect was refused on a client that another call had closed while
\* its child was running.
C37_Witness ==
    /\ closed /\ ~connected /\ transport /\ spawns = 1
    /\ \E i \in 1..Len(calls) :
         /\ calls[i].op = "Connect" /\ calls[i].pre = "Closed"
         /\ calls[i].err = "client is closed"

\* C38: a Connect that returns an error on an unconnected client leaves it
\* unconnected and without a transport, and Connect can be called again.
C38_FailedConnectChangesNothing ==
    [][(/\ Len(calls') = Len(calls) + 1
        /\ calls'[Len(calls')].op = "Connect"
        /\ calls'[Len(calls')].pre = "Unconnected"
        /\ calls'[Len(calls')].err # "none")
         => (~connected' /\ ~transport' /\ spawns' = spawns /\ ConnectCheck' = "none")]_vars

\* C39: the history is in emission order: of any two messages in it, the
\* one the child emitted first comes first.
C39_HistoryInEmissionOrder ==
    \A i, j \in 1..Len(history) : i < j => history[i].n < history[j].n

\* C40: the system is never in the state where a sender holds the write
\* guard in a write that the full stdin pipe blocks, the diagnostic reader
\* waits for that guard with a chunk in hand, and the child, which has not
\* started to read its input, is blocked on the full stderr pipe.
C40_SenderNeverStallsCapture ==
    ~(\E w \in Writers :
        /\ wmu = w /\ wPc[w].pc = "body" /\ inFill = PipeCap
        /\ errPc = "store"
        /\ child = "running" /\ errOut < ErrBytes /\ errFill = PipeCap)

\* ------------------------------------------------------- claims on Query
\* The messages of all the lines the child has emitted.
EmittedAll == Emitted(Len(stdout))

\* Every emitted line is a conversation frame that decodes.
AllDecodable == \A n \in 1..Len(stdout) : Decodable(stdout[n])

\* Query has returned, and not on its 30 minute timer.
QueryReturned == qPc = "returned" /\ qRet # "query timeout"

\* The child ran to its own exit and the caller's context was never cancelled.
OwnExit(code) ==
    /\ child = "exited" /\ exitCode = code /\ "spawn" \notin cancelled

\* C15: when the child emits decodable frames and exits with status 0, Query
\* returns a result whose message list holds every emitted message in order,
\* and whose Result is set exactly when a terminal result was emitted.
C15_QueryDrainsAll ==
    (QueryReturned /\ OwnExit(0) /\ AllDecodable)
      => /\ qRet = "ok"
         /\ qMsgs = EmittedAll
         /\ (qResult # Nil) <=> (\E n \in 1..Len(stdout) : EmittedAll[n].type = "result")

\* C14: when the child emits assistant messages and then a terminal result
\* and exits with status 0, the Stdout of the result is the texts of all
\* emitted text blocks, in order, joined by newlines.
C14_StdoutJoinsTexts ==
    (/\ QueryReturned /\ OwnExit(0) /\ AllDecodable
     /\ Len(stdout) >= 1 /\ EmittedAll[Len(stdout)].type = "result")
      => /\ qRet = "ok"
         /\ QueryStdout = Join(TextParts(EmittedAll))

\* C16: a line that fails to decode does not make Query fail.
C16_DecodeFailureNotFatal ==
    qPc = "returned" => qRet \notin {"CLIJSONDecodeError", "MessageParseError"}

\* C17: when the child exits with a non-zero status Query returns the
\* process-exit error of transport.wait.
C17_ExitFailureReturned ==
    (QueryReturned /\ OwnExit(1) /\ AllDecodable) => qRet = "ProcessError"

\* C18: when the context is cancelled while the child runs, Query returns
\* the context's error.
C18_CancelReturnsCtxErr ==
    (QueryReturned /\ killer = "ctx" /\ AllDecodable) => qRet = "context canceled"

====
